---- MODULE Spec2Model ----
(***************************************************************************)
(* Model of the rotor-http server connection state machine                 *)
(* (src/src/server/parser.rs) together with the input buffer it reads,     *)
(* the output buffer it writes and the handler it drives.                  *)
(*                                                                         *)
(* Bytes are tokens.  A request line ("R11", "R10") and a header line      *)
(* ("TE", "CL2", ...) are one token each, followed by the tokens "CR" and  *)
(* "LF"; hexadecimal digits, payload bytes and CR / LF are one token per   *)
(* byte.  Lengths and offsets are counted in tokens.                       *)
(***************************************************************************)
EXTENDS Integers, Sequences, FiniteSets, TLC

(***************************************************************************)
(* Bounds of the model                                                     *)
(***************************************************************************)
\* number of requests a client puts on one connection
MaxReqs == 2
\* number of timeout / wakeup events delivered to one connection
MaxTimers == 1
\* largest limit a handler returns in RecvMode::Buffered
MaxLimit == 3
\* largest hint a handler returns in RecvMode::Progressive
MaxHint == 2
\* number of operations invoked on one message builder
MaxOps == 6
\* largest Content-Length given to add_length; write_body is given up to one
\* byte more
MaxLength == 2

(***************************************************************************)
(* Program constants                                                       *)
(***************************************************************************)
\* longest chunk-size line the parser waits for (128 in the source; the
\* model counts in tokens and uses a shorter line)
MAX_CHUNK_HEAD == 5
\* longest header block (16384 in the source, shorter in the model)
MAX_HEADERS_SIZE == 12
\* arithmetic on u64 wraps modulo U64 in a build without overflow checks;
\* every quantity of the model is far below it
U64 == 2^20

(***************************************************************************)
(* Sequences of tokens                                                     *)
(***************************************************************************)
CRLF == <<"CR", "LF">>

HexDigits == {"0", "1", "2", "3"}

HexValue(t) == CASE t = "0" -> 0 [] t = "1" -> 1 [] t = "2" -> 2 [] OTHER -> 3

HexOf(n) == CASE n = 0 -> "0" [] n = 1 -> "1" [] n = 2 -> "2" [] OTHER -> "3"

RequestLines == {"R11", "R10", "RH11"}

\* the decimal digits, and the Content-Length lines with these values
DecimalDigits == <<"0", "1", "2", "3", "4", "5", "6", "7", "8", "9">>

LengthLines ==
    <<"CL0", "CL1", "CL2", "CL3", "CL4", "CL5", "CL6", "CL7", "CL8", "CL9">>

HeaderLines ==
    {"TE", "TEG", "TEGC", "TECG", "CLX", "CC", "CK", "EX"}
    \cup { LengthLines[i] : i \in DOMAIN LengthLines }

Min(a, b) == IF a <= b THEN a ELSE b

\* the part of s from index a (0-based, inclusive) to b (exclusive)
Slice(s, a, b) == SubSeq(s, a + 1, b)

\* Buf::consume(n)
Consume(s, n) == SubSeq(s, n + 1, Len(s))

\* Buf::remove_range(a..b)
RemoveRange(s, a, b) == SubSeq(s, 1, a) \o SubSeq(s, b + 1, Len(s))

RECURSIVE Flatten(_)
Flatten(ss) == IF ss = <<>> THEN <<>> ELSE Head(ss) \o Flatten(Tail(ss))

\* index (0-based) of the first CR LF CR LF (n = 4) or CR LF (n = 2) in s
\* at or after position from, relative to from; -1 when there is none
RECURSIVE FindDelim(_, _, _)
FindDelim(s, from, n) ==
    IF from + n > Len(s) THEN -1
    ELSE IF /\ s[from + 1] = "CR" /\ s[from + 2] = "LF"
            /\ (n = 4 => s[from + 3] = "CR" /\ s[from + 4] = "LF")
         THEN 0
         ELSE LET r == FindDelim(s, from + 1, n)
              IN  IF r = -1 THEN -1 ELSE r + 1

(***************************************************************************)
(* httparse, as the parser calls it                                        *)
(***************************************************************************)
\* length of the line terminator of buf at position pos (0-based): 2 for
\* CR LF, 1 for a bare LF, 0 when buf ends before it is complete, -1 when
\* the next tokens are not a line terminator
Newline(buf, pos) ==
    IF pos >= Len(buf) THEN 0
    ELSE IF buf[pos + 1] = "LF" THEN 1
    ELSE IF buf[pos + 1] = "CR"
         THEN IF pos + 1 >= Len(buf) THEN 0
              ELSE IF buf[pos + 2] = "LF" THEN 2 ELSE -1
    ELSE -1

\* httparse skips the empty lines before the request line
RECURSIVE SkipEmptyLines(_, _)
SkipEmptyLines(buf, pos) ==
    LET n == Newline(buf, pos)
    IN  IF n > 0 THEN SkipEmptyLines(buf, pos + n) ELSE pos

ParseResult(status, len, version, head, headers) ==
    [status |-> status, len |-> len, version |-> version,
     is_head |-> head, headers |-> headers]

ParsePartial == ParseResult("Partial", 0, "Http11", FALSE, <<>>)

ParseError == ParseResult("Error", 0, "Http11", FALSE, <<>>)

\* the header lines of buf from pos on, up to the empty line
RECURSIVE ParseHeaderLines(_, _, _, _)
ParseHeaderLines(buf, pos, reqline, acc) ==
    IF pos >= Len(buf) THEN ParsePartial
    ELSE LET n == Newline(buf, pos)
         IN  IF n > 0
             THEN ParseResult("Complete", pos + n,
                              IF reqline = "R10" THEN "Http10" ELSE "Http11",
                              reqline = "RH11", acc)
             ELSE IF n = 0 THEN ParsePartial
             ELSE IF buf[pos + 1] \notin HeaderLines THEN ParseError
             ELSE LET m == Newline(buf, pos + 1)
                  IN  IF m = 0 THEN ParsePartial
                      ELSE IF m = -1 THEN ParseError
                      ELSE ParseHeaderLines(buf, pos + 1 + m, reqline,
                                            Append(acc, buf[pos + 1]))

\* httparse::Request::parse
ParseRequest(buf) ==
    LET start == SkipEmptyLines(buf, 0)
    IN  IF start >= Len(buf) THEN ParsePartial
        ELSE IF Newline(buf, start) = -1 /\ buf[start + 1] = "CR"
             THEN ParseError
        ELSE IF buf[start + 1] \notin RequestLines THEN ParseError
        ELSE LET m == Newline(buf, start + 1)
             IN  IF m = 0 THEN ParsePartial
                 ELSE IF m = -1 THEN ParseError
                 ELSE ParseHeaderLines(buf, start + 1 + m, buf[start + 1],
                                       <<>>)

\* httparse::parse_chunk_size on a slice that ends with the first CR LF:
\* <<"Complete", size>> or <<"Error", 0>>
RECURSIVE ChunkSizeFrom(_, _, _, _)
ChunkSizeFrom(buf, pos, size, in_ext) ==
    IF pos >= Len(buf) THEN <<"Partial", 0>>
    ELSE LET b == buf[pos + 1]
         IN  IF b \in HexDigits /\ ~in_ext
             THEN ChunkSizeFrom(buf, pos + 1, size * 16 + HexValue(b), FALSE)
             ELSE IF b = "CR"
             THEN IF pos + 1 >= Len(buf) THEN <<"Partial", 0>>
                  ELSE IF buf[pos + 2] = "LF" THEN <<"Complete", size>>
                  ELSE <<"Error", 0>>
             ELSE IF b = ";" \/ in_ext
             THEN ChunkSizeFrom(buf, pos + 1, size, TRUE)
             ELSE <<"Error", 0>>

parse_chunk_size(buf) == ChunkSizeFrom(buf, 0, 0, FALSE)

(***************************************************************************)
(* Header value tokens (headers.rs).  A value is a sequence of bytes, one  *)
(* character each.                                                         *)
(***************************************************************************)
\* the bytes both loops skip
Blank == {" ", "\t", "\r", "\n"}

\* u8::to_ascii_lowercase
byte_to_ascii_lowercase(ch) ==
    CASE ch = "C" -> "c" [] ch = "H" -> "h" [] ch = "U" -> "u"
      [] ch = "N" -> "n" [] ch = "K" -> "k" [] ch = "E" -> "e"
      [] ch = "D" -> "d" [] ch = "L" -> "l" [] ch = "O" -> "o"
      [] ch = "S" -> "s" [] ch = "X" -> "x" [] OTHER -> ch

RECURSIVE TokenStart(_, _, _)
\* the first loop: the position after the leading c, 0 when the value is
\* rejected, Len(val) + 1 when the iterator ran out (idx counts from 1)
TokenStart(val, idx, n) ==
    IF idx > Len(val) THEN Len(val) + 1
    ELSE IF val[idx] \in Blank THEN TokenStart(val, idx + 1, n)
    ELSE IF val[idx] \in {"c", "C"}
         THEN IF (idx - 1) + n > Len(val) THEN 0 ELSE idx + 1
    ELSE 0

\* the length test, the first loop, then the second loop over at most
\* Len(token) - 1 of the bytes that are left; nothing is read after them
TokenMatches(val, token) ==
    IF Len(val) < Len(token) THEN FALSE
    ELSE LET start == TokenStart(val, 1, Len(token))
         IN  /\ start # 0
             /\ \A i \in 1..(Len(token) - 1) :
                    start + i - 1 <= Len(val)
                        => token[i + 1]
                             = byte_to_ascii_lowercase(val[start + i - 1])

is_close(val) == TokenMatches(val, <<"c", "l", "o", "s", "e">>)

is_chunked(val) == TokenMatches(val, <<"c", "h", "u", "n", "k", "e", "d">>)

(***************************************************************************)
(* scan_headers: body kind, Expect: 100-continue, must-close               *)
(***************************************************************************)
\* the value of a header line, byte by byte
HeaderValue(h) ==
    CASE h = "TE" -> <<"c", "h", "u", "n", "k", "e", "d">>
      [] h = "TEG" -> <<"g", "z", "i", "p">>
      [] h = "TEGC" -> <<"g", "z", "i", "p", ",", " ",
                         "c", "h", "u", "n", "k", "e", "d">>
      [] h = "TECG" -> <<"c", "h", "u", "n", "k", "e", "d", ",", " ",
                         "g", "z", "i", "p">>
      [] \E i \in DOMAIN LengthLines : LengthLines[i] = h ->
           <<DecimalDigits[CHOOSE i \in DOMAIN LengthLines :
                               LengthLines[i] = h]>>
      [] h = "CLX" -> <<"x">>
      [] h = "CC" -> <<"c", "l", "o", "s", "e">>
      [] h = "CK" -> <<"k", "e", "e", "p", ",", " ", "C", "l", "o", "s", "e">>
      [] OTHER -> <<>>

is_transfer_encoding(h) == h \in {"TE", "TEG", "TEGC", "TECG"}

is_connection(h) == h \in {"CC", "CK"}

IsContentLength(h) ==
    h = "CLX" \/ \E i \in DOMAIN LengthLines : LengthLines[i] = h

\* value.split(|&x| x == b','), the part that is being collected last
RECURSIVE Split(_, _)
Split(val, part) ==
    IF val = <<>> THEN <<part>>
    ELSE IF Head(val) = "," THEN <<part>> \o Split(Tail(val), <<>>)
    ELSE Split(Tail(val), Append(part, Head(val)))

\* s.parse::<u64>() of a value of one byte, -1 for an error
ParseLength(val) ==
    IF Len(val) = 1 /\ \E i \in DOMAIN DecimalDigits : DecimalDigits[i] = val[1]
    THEN (CHOOSE i \in DOMAIN DecimalDigits : DecimalDigits[i] = val[1]) - 1
    ELSE -1

ContentLengthOf(h) == ParseLength(HeaderValue(h))

BodyFixed(n) == [k |-> "Fixed", n |-> n]

BodyChunked == [k |-> "Chunked", n |-> 0]

ScanState(ok, body, expect, close, has_cl) ==
    [ok |-> ok, body |-> body, expect |-> expect, close |-> close,
     has_content_length |-> has_cl]

RECURSIVE ScanLoop(_, _)
ScanLoop(headers, s) ==
    IF headers = <<>> \/ ~s.ok THEN s
    ELSE LET h == Head(headers)
             encodings == Split(HeaderValue(h), <<>>)
             next ==
               IF is_transfer_encoding(h)
               THEN IF is_chunked(encodings[Len(encodings)])
                    THEN ScanState(TRUE, BodyChunked, s.expect,
                                   s.close \/ s.has_content_length,
                                   s.has_content_length)
                    ELSE s
               ELSE IF IsContentLength(h)
               THEN IF s.has_content_length
                    THEN ScanState(FALSE, s.body, s.expect, s.close, TRUE)
                    ELSE IF s.body # BodyChunked
                    THEN IF ContentLengthOf(h) < 0
                         THEN ScanState(FALSE, s.body, s.expect, s.close, TRUE)
                         ELSE ScanState(TRUE, BodyFixed(ContentLengthOf(h)),
                                        s.expect, s.close, TRUE)
                    ELSE ScanState(TRUE, s.body, s.expect, TRUE, TRUE)
               ELSE IF is_connection(h)
               THEN IF \E i \in DOMAIN encodings : is_close(encodings[i])
                    THEN ScanState(TRUE, s.body, s.expect, TRUE,
                                   s.has_content_length)
                    ELSE s
               ELSE IF h = "EX"
               THEN ScanState(TRUE, s.body, TRUE, s.close,
                              s.has_content_length)
               ELSE s
         IN  ScanLoop(Tail(headers), next)

scan_headers(version, headers) ==
    ScanLoop(headers,
             ScanState(TRUE, BodyFixed(0), FALSE, version = "Http10", FALSE))

(***************************************************************************)
(* The requests a client sends                                             *)
(***************************************************************************)
HeadOf(reqline, hdrs) ==
    <<reqline>> \o CRLF
    \o Flatten([i \in DOMAIN hdrs |-> <<hdrs[i]>> \o CRLF]) \o CRLF

\* the chunked encoding of a sequence of chunk payloads
ChunkedWire(chunks) ==
    Flatten([i \in DOMAIN chunks |->
               <<HexOf(Len(chunks[i]))>> \o CRLF \o chunks[i] \o CRLF])
    \o <<"0">> \o CRLF \o CRLF

Request(head, body, payload, chunked, wellformed) ==
    [head |-> head, body |-> body, payload |-> payload,
     chunked |-> chunked, wellformed |-> wellformed]

FixedRequest(reqline, hdrs, body) ==
    Request(HeadOf(reqline, hdrs), body, body, FALSE, TRUE)

ChunkedRequest(hdrs, chunks) ==
    Request(HeadOf("R11", hdrs), ChunkedWire(chunks), Flatten(chunks),
            TRUE, TRUE)

ChunkLists ==
    { <<>>,
      << <<"p", "q">> >>,
      << <<"p">>, <<"q", "r">> >>,
      << <<"p", "q", "r">> >>,
      << <<"CR", "LF">>, <<"p">> >> }

WellFormedRequests ==
    { FixedRequest("R11", <<>>, <<>>),
      FixedRequest("R10", <<>>, <<>>),
      FixedRequest("RH11", <<>>, <<>>),
      FixedRequest("R11", <<"CL2">>, <<"p", "q">>),
      \* Expect: 100-continue
      FixedRequest("R11", <<"CL2", "EX">>, <<"p", "q">>),
      \* a HEAD request with a chunked body
      Request(HeadOf("RH11", <<"TE">>), ChunkedWire(<< <<"p", "q", "r">> >>),
              <<"p", "q", "r">>, TRUE, TRUE),
      ChunkedRequest(<<"TE", "CC">>, << <<"p", "q">> >>),
      ChunkedRequest(<<"CL2", "TE">>, << <<"p", "q">> >>),
      \* a chunk-size line with an extension
      Request(HeadOf("R11", <<"TE">>),
              <<"2", ";", "x">> \o CRLF \o <<"p", "q">> \o CRLF
                \o <<"0">> \o CRLF \o CRLF,
              <<"p", "q">>, TRUE, TRUE) }
    \cup { ChunkedRequest(<<"TE">>, c) : c \in ChunkLists }

MalformedRequests ==
    { \* a chunk-size line that is not a hexadecimal number
      Request(HeadOf("R11", <<"TE">>),
              <<"1">> \o CRLF \o <<"p">> \o CRLF \o <<"x">> \o CRLF,
              <<"p">>, TRUE, FALSE),
      \* a chunk-size line longer than MAX_CHUNK_HEAD
      Request(HeadOf("R11", <<"TE">>),
              <<"1", ";", "x", "x", "x", "x", "x">>,
              <<>>, TRUE, FALSE),
      \* a header block longer than MAX_HEADERS_SIZE
      Request(HeadOf("R11", <<"CL0", "CC", "EX", "CC">>), <<>>, <<>>,
              FALSE, FALSE) }

Requests == WellFormedRequests \cup MalformedRequests

\* the requests of a connection that carries more than one
KeepAliveRequests ==
    { FixedRequest("R11", <<>>, <<>>),
      FixedRequest("R11", <<"CL2">>, <<"p", "q">>),
      ChunkedRequest(<<"TE">>, << <<"p", "q">> >>) }

FollowUps == { FixedRequest("R11", <<>>, <<>>) }

\* the connections with exactly n requests
RECURSIVE ScriptsOf(_)
ScriptsOf(n) ==
    IF n = 1 THEN { <<r>> : r \in Requests }
    ELSE IF n = 2 THEN { <<a, b>> : a \in KeepAliveRequests, b \in FollowUps }
    ELSE { Append(sc, b) : sc \in ScriptsOf(n - 1), b \in FollowUps }

Scripts == UNION { ScriptsOf(n) : n \in 1..MaxReqs }

WireOf(sc) == Flatten([i \in DOMAIN sc |-> sc[i].head \o sc[i].body])

(***************************************************************************)
(* State                                                                   *)
(***************************************************************************)
VARIABLES
    script,            \* the requests the client sends on this connection
    wire,              \* bytes the client has sent, not yet in the buffer
    inp,               \* transport.input()
    out,               \* what the current message wrote to transport.output()
    st,                \* variant of ParserImpl, "Closed" or "Panic"
    scanned,           \* ReadHeaders(x)
    machine,           \* the Option<M> is Some
    progress,          \* BodyProgress
    response,          \* MessageState of the response builder
    connection_close,  \* ReadBody.connection_close / Processing(_, _, c, _)
    exp,               \* the Expectation of the last Intent
    mode,              \* RecvMode returned by headers_received
    msg,               \* number of header blocks the parser has started
    calls,             \* handler callbacks invoked for the current message
    delivered,         \* body bytes handed to the handler, concatenated
    consumed,          \* bytes removed from the input buffer so far
    event,             \* the event the adapter delivered last
    timers             \* timeout and wakeup events delivered so far

\* a message under construction (message.rs), driven on its own
VARIABLES
    mstate,            \* MessageState, the second field of Message
    mbuf,              \* the output buffer, the first field of Message
    mlast,             \* the last operation invoked and what it returned
    mhist              \* how the message was created and what was declared

\* a pure function of the header scanner, applied to an input on its own
VARIABLES
    given,             \* the arguments of the call
    computed           \* what the call returned, NoOutput before the call

\* a client connection (client/parser.rs) and the handlers behind it
VARIABLES
    cscript,           \* the response the server sends on this connection
    cwire,             \* bytes the server has sent, not yet in the buffer
    cinp,              \* transport.input()
    cst,               \* variant of ParserImpl, "Closed" or "Panic"
    cprogress,         \* Response.progress
    cexp,              \* the Expectation of the last Intent
    crequest,          \* the MessageState of the request, "None" without one
    chead,             \* the Head given to headers_received
    cmode,             \* the RecvMode headers_received returned
    ccalls,            \* callbacks of Client and Requester, in order
    cdelivered,        \* body bytes handed to the handler, concatenated
    ctimers            \* timeout and wakeup events delivered so far

\* the state of a connection
pvars == <<script, wire, inp, out, st, scanned, machine, progress, response,
           connection_close, exp, mode, msg, calls, delivered, consumed,
           event, timers>>

\* the state of a message builder
mvars == <<mstate, mbuf, mlast, mhist>>

\* the state of a function call
fvars == <<given, computed>>

\* the state of a client connection
cvars == <<cscript, cwire, cinp, cst, cprogress, cexp, crequest, chead,
           cmode, ccalls, cdelivered, ctimers>>

vars == <<pvars, mvars, fvars, cvars>>

(***************************************************************************)
(* Expectations and body progress                                          *)
(***************************************************************************)
Bytes(n) == [k |-> "Bytes", a |-> n, needle |-> 0, max |-> 0]

Delimiter(start, needle, max) ==
    [k |-> "Delimiter", a |-> start, needle |-> needle, max |-> max]

Flush == [k |-> "Flush", a |-> 0, needle |-> 0, max |-> 0]

Sleep == [k |-> "Sleep", a |-> 0, needle |-> 0, max |-> 0]

NoExpectation == [k |-> "None", a |-> 0, needle |-> 0, max |-> 0]

Progress(k, lim, off, left) ==
    [k |-> k, lim |-> lim, off |-> off, left |-> left]

NoProgress == Progress("None", 0, 0, 0)

Buffered(n) == [k |-> "Buffered", n |-> n]

Progressive(n) == [k |-> "Progressive", n |-> n]

NoMode == [k |-> "None", n |-> 0]

RecvModes == { Buffered(n) : n \in 1..MaxLimit }
             \cup { Progressive(n) : n \in 1..MaxHint }

start_body(m, body) ==
    IF m.k = "Buffered"
    THEN IF body.k = "Fixed" THEN Progress("BufferFixed", 0, 0, body.n)
         ELSE Progress("BufferChunked", m.n, 0, 0)
    ELSE IF body.k = "Fixed" THEN Progress("ProgressiveFixed", m.n, 0, body.n)
         ELSE Progress("ProgressiveChunked", m.n, 0, 0)

\* variant of consumed() that forgets the chunk's CRLF kept in the buffer
consumed_no_crlf(off) == off

\* consumed(): the offset of the next chunk-size line
consumed_(off) == IF off > 0 THEN off + 2 ELSE 0

\* the expectation ParserImpl::intent computes for ReadingBody
BodyExpectation(p) ==
    CASE p.k = "BufferFixed" -> Bytes(p.left)
      [] p.k = "BufferChunked" ->
           IF p.left = 0
           THEN Delimiter(consumed_(p.off), 2,
                          consumed_(p.off) + MAX_CHUNK_HEAD)
           ELSE Bytes(p.off + p.left + 2)
      [] p.k = "ProgressiveFixed" -> Bytes(Min(p.lim, p.left))
      [] OTHER ->
           IF p.left = 0
           THEN Delimiter(p.off, 2, p.off + MAX_CHUNK_HEAD)
           ELSE Bytes(Min(p.lim, (p.off + p.left) % U64) + 2)

\* ParserImpl::intent
intent(state, x, p) ==
    CASE state = "Idle" -> Bytes(0)
      [] state = "ReadHeaders" -> Bytes(x + 1)
      [] state = "ReadingBody" -> BodyExpectation(p)
      [] OTHER -> Flush

(***************************************************************************)
(* The stream adapter: when bytes_read is due, and with which end          *)
(***************************************************************************)
ExpectationMet ==
    CASE exp.k = "Bytes" -> Len(inp) >= exp.a
      [] exp.k = "Delimiter" ->
           Len(inp) > exp.a /\ FindDelim(inp, exp.a, exp.needle) # -1
      [] OTHER -> FALSE

End == IF exp.k = "Bytes" THEN exp.a ELSE FindDelim(inp, exp.a, exp.needle)

Reading == exp.k \in {"Bytes", "Delimiter"}

\* the machine is parked until its expectation is met
Parked == st \notin {"Closed", "Panic"} /\ ~ExpectationMet

(***************************************************************************)
(* The handler and the response builder                                    *)
(***************************************************************************)
\* what a handler callback may do with the response: nothing, write the
\* status line and leave the response unfinished, or finish it
RespOps(r) ==
    CASE r = "Start" -> {"Start", "Started", "Done"}
      [] r = "StartHead" -> {"StartHead", "Started", "Done"}
      [] r = "Started" -> {"Started", "Done"}
      [] OTHER -> {"Done"}

\* the output of a callback that moves the response from r to r2
Written(r, r2) ==
    (IF r \in {"Start", "StartHead"} /\ r2 \notin {"Start", "StartHead"}
     THEN <<"S">> ELSE <<>>)
    \o (IF r # "Done" /\ r2 = "Done" THEN <<"E">> ELSE <<>>)

\* results of a callback invoked through Option::and_then: (Some?, response)
Outcomes(m, r) ==
    IF m THEN { [some |-> b, resp |-> r2] : b \in BOOLEAN, r2 \in RespOps(r) }
    ELSE { [some |-> FALSE, resp |-> r] }

Called(m, cs, name) == IF m THEN Append(cs, name) ELSE cs

\* Response::new: ResponseStart with body Ignored for a HEAD request
ResponseNew(is_head) == IF is_head THEN "StartHead" ELSE "Start"

is_started(r) == r \notin {"Start", "StartHead"}

is_complete(r) == r = "Done"

ErrorPage(code) ==
    CASE code = "BadRequest" -> "P400"
      [] code = "PayloadTooLarge" -> "P413"
      [] code = "RequestTimeout" -> "P408"
      [] OTHER -> "P431"

\* Context::emit_error_page writes a complete response
emit_error_page(code) == <<ErrorPage(code)>>

\* Context::emit_error_page on a response to HEAD: done_headers leaves the
\* builder in IgnoredBody, where write_body panics
emit_error_page_panics(r) == r = "StartHead"

\* what emit_error_page has written when write_body panics: the status line
\* and the header block
ErrorHead(code) == <<"H">>

(***************************************************************************)
(* The message builder (src/src/message.rs): states and results            *)
(***************************************************************************)
\* content_length: None
NoLength == -1

\* MessageState; the fields a variant does not have are at their defaults
MessageState(k, body, chunked, close, request, content_length, left) ==
    [k |-> k, body |-> body, chunked |-> chunked, close |-> close,
     request |-> request, content_length |-> content_length, left |-> left]

ResponseStart(body, close) ==
    MessageState("ResponseStart", body, FALSE, close, FALSE, NoLength, 0)

RequestStart ==
    MessageState("RequestStart", "Normal", FALSE, FALSE, TRUE, NoLength, 0)

Headers(body, chunked, close, request, content_length) ==
    MessageState("Headers", body, chunked, close, request, content_length, 0)

ZeroBodyMessage ==
    MessageState("ZeroBodyMessage", "Normal", FALSE, FALSE, FALSE, NoLength, 0)

IgnoredBody ==
    MessageState("IgnoredBody", "Normal", FALSE, FALSE, FALSE, NoLength, 0)

FixedSizeBody(x) ==
    MessageState("FixedSizeBody", "Normal", FALSE, FALSE, FALSE, NoLength, x)

ChunkedBody ==
    MessageState("ChunkedBody", "Normal", FALSE, FALSE, FALSE, NoLength, 0)

Done == MessageState("Done", "Normal", FALSE, FALSE, FALSE, NoLength, 0)

\* no message is under construction
NoMessage == MessageState("None", "Normal", FALSE, FALSE, FALSE, NoLength, 0)

\* the record of an invocation: operation, its arguments, what it returned
Call(op, name, n, result) ==
    [op |-> op, name |-> name, n |-> n, result |-> result]

NoCall == Call("new", "", 0, "Ok")

\* how a message was created, the status it was given, the length it
\* declared and the number of operations invoked on it
History(is_head, request, code, declared, ops) ==
    [is_head |-> is_head, request |-> request, code |-> code,
     declared |-> declared, ops |-> ops]

NoHistory == History(FALSE, FALSE, 0, NoLength, 0)

NoInput == [f |-> "None"]

NoOutput == [f |-> "None"]

\* no connection, no message builder, no function call
NoConnection ==
    /\ script = <<>>
    /\ wire = <<>>
    /\ inp = <<>>
    /\ out = <<>>
    /\ st = "Closed"
    /\ scanned = 0
    /\ machine = FALSE
    /\ progress = NoProgress
    /\ response = "Start"
    /\ connection_close = FALSE
    /\ exp = NoExpectation
    /\ mode = NoMode
    /\ msg = 0
    /\ calls = <<>>
    /\ delivered = <<>>
    /\ consumed = 0
    /\ event = "create"
    /\ timers = 0

NoBuilder ==
    /\ mstate = NoMessage
    /\ mbuf = <<>>
    /\ mlast = NoCall
    /\ mhist = NoHistory

NoFunction ==
    /\ given = NoInput
    /\ computed = NoOutput

NoHead == [code |-> 0, version |-> "None", body_kind |-> "None",
           close |-> FALSE, headers |-> <<>>]

NoClient ==
    /\ cscript = <<>>
    /\ cwire = <<>>
    /\ cinp = <<>>
    /\ cst = "Closed"
    /\ cprogress = NoProgress
    /\ cexp = NoExpectation
    /\ crequest = "None"
    /\ chead = NoHead
    /\ cmode = NoMode
    /\ ccalls = <<>>
    /\ cdelivered = <<>>
    /\ ctimers = 0

Init ==
    /\ script \in Scripts
    /\ wire = WireOf(script)
    /\ inp = <<>>
    /\ out = <<>>
    /\ st = "Idle"
    /\ scanned = 0
    /\ machine = FALSE
    /\ progress = NoProgress
    /\ response = "Start"
    /\ connection_close = FALSE
    /\ exp = Bytes(1)
    /\ mode = NoMode
    /\ msg = 0
    /\ calls = <<>>
    /\ delivered = <<>>
    /\ consumed = 0
    /\ event = "create"
    /\ timers = 0
    /\ mstate = NoMessage
    /\ mbuf = <<>>
    /\ mlast = NoCall
    /\ mhist = NoHistory
    /\ NoFunction
    /\ NoClient

(***************************************************************************)
(* Building blocks of the transitions                                      *)
(***************************************************************************)
\* the new value of everything a parser method can change
Step(st2, scanned2, machine2, progress2, response2, close2, exp2, inp2, out2, calls2, delivered2, consumed2) ==
    /\ st' = st2
    /\ scanned' = scanned2
    /\ machine' = machine2
    /\ progress' = progress2
    /\ response' = response2
    /\ connection_close' = close2
    /\ exp' = exp2
    /\ inp' = inp2
    /\ out' = out2
    /\ calls' = calls2
    /\ delivered' = delivered2
    /\ consumed' = consumed2

\* a panic: failed assertion, slice out of range, arithmetic overflow,
\* unreachable!()
Panicked(out2, calls2, delivered2) ==
    Step("Panic", 0, FALSE, NoProgress, response, connection_close,
         NoExpectation, <<>>, out2, calls2, delivered2, consumed)

\* a panic before any callback of the event is invoked
Panic == Panicked(out, calls, delivered)

\* Intent::done(): the connection and its buffers are dropped
Terminate(out2, response2, calls2) ==
    Step("Closed", 0, FALSE, NoProgress, response2, connection_close,
         NoExpectation, <<>>, out2, calls2, delivered, consumed)

\* variant of Parser::flush that returns to Idle instead of closing
flush_keep_alive(inp2, out2, response2, calls2, delivered2, consumed2) ==
    Step("Idle", scanned, FALSE, NoProgress, response2, connection_close,
         Bytes(0), inp2, out2, calls2, delivered2, consumed2)

\* Parser::flush
flush(inp2, out2, response2, calls2, delivered2, consumed2) ==
    Step("DoneResponse", scanned, FALSE, NoProgress, response2,
         connection_close, Flush, inp2, out2, calls2, delivered2, consumed2)

\* ReadingBody(..).intent(scope)
reading_body(m, p, r, inp2, out2, calls2, delivered2, consumed2) ==
    Step("ReadingBody", scanned, m, p, r, connection_close,
         BodyExpectation(p), inp2, out2, calls2, delivered2, consumed2)

\* variant of Parser::error that stays in ReadingBody
error_keeps_reading(r, code, inp2, out2, calls2, consumed2) ==
    IF emit_error_page_panics(r)
    THEN Panicked(out2 \o ErrorHead(code), calls2, delivered)
    ELSE
    reading_body(machine, progress,
                 IF is_started(r) THEN r ELSE "Done", inp2,
                 IF is_started(r) THEN out2 ELSE out2 \o emit_error_page(code),
                 calls2, delivered, consumed2)

\* Parser::error: the error page if the response is not started, then the
\* closing state
error(r, code, inp2, out2, calls2, consumed2) ==
    IF emit_error_page_panics(r)
    THEN Panicked(out2 \o ErrorHead(code), calls2, delivered)
    ELSE
    flush(inp2,
          IF is_started(r) THEN out2 ELSE out2 \o emit_error_page(code),
          IF is_started(r) THEN r ELSE "Done",
          calls2, delivered, consumed2)

\* variant of Parser::raw_error on a response taken as started
raw_error_silent(code) == error("Started", code, inp, out, calls, consumed)

\* Parser::raw_error
raw_error(code) == error("Start", code, inp, out, calls, consumed)

\* variant of Parser::complete without assert!(response.is_complete())
complete_unasserted(m, r, close, inp2, out2, calls2, delivered2, consumed2) ==
    IF m
    THEN Step("Processing", scanned, TRUE, NoProgress, r, close, Sleep,
              inp2, out2, calls2, delivered2, consumed2)
    ELSE IF close
    THEN flush(inp2, out2, r, calls2, delivered2, consumed2)
    ELSE Step("Idle", scanned, FALSE, NoProgress, r, close, Bytes(0),
              inp2, out2, calls2, delivered2, consumed2)

\* Parser::complete
complete(m, r, close, inp2, out2, calls2, delivered2, consumed2) ==
    IF m
    THEN Step("Processing", scanned, TRUE, NoProgress, r, close, Sleep,
              inp2, out2, calls2, delivered2, consumed2)
    ELSE IF ~is_complete(r)
    THEN Panicked(out2, calls2, delivered2)
    ELSE IF close
    THEN flush(inp2, out2, r, calls2, delivered2, consumed2)
    ELSE Step("Idle", scanned, FALSE, NoProgress, r, close, Bytes(0),
              inp2, out2, calls2, delivered2, consumed2)

(***************************************************************************)
(* parse_headers                                                           *)
(***************************************************************************)
HeadersReceivedOutcomes(r0) ==
    { [some |-> FALSE, mode |-> NoMode, resp |-> r] : r \in RespOps(r0) }
    \cup { [some |-> TRUE, mode |-> m, resp |-> r] :
             m \in RecvModes, r \in RespOps(r0) }

HeaderResult(kind, code, called, body, close, expect) ==
    [kind |-> kind, code |-> code, called |-> called, body |-> body,
     close |-> close, expect |-> expect]

\* variant that accepts a body as long as the limit
payload_too_large_strict(n, limit) == n > limit

\* Buffered(y) with Fixed(x): x >= y
payload_too_large(n, limit) == n >= limit

\* variant that keeps the connection when the request has a body
fatal_after_none_close_only(close, body) == close

\* headers_received returned None: the connection cannot be kept
fatal_after_none(close, body) == close \/ body # BodyFixed(0)

\* variant that ignores the state of the response
send_continue_always(expect, r) == expect

\* the interim 100 Continue line is due
send_continue(expect, r) == expect /\ ~is_started(r)

\* is_head of the request whose header block ends at end
is_head(end) ==
    Len(inp) >= end + 4 /\ ParseRequest(Slice(inp, 0, end + 4)).is_head

\* the HeaderResult for the header block that ends at end, when the handler
\* answers headers_received with o; checked: debug assertions are compiled in
parse_headers(end, o, checked) ==
    IF Len(inp) < end + 4
    THEN HeaderResult("Panic", "", FALSE, BodyFixed(0), FALSE, FALSE)
    ELSE
    LET raw == ParseRequest(Slice(inp, 0, end + 4))
    IN  IF raw.status = "Partial"
        THEN HeaderResult("Incomplete", "", FALSE, BodyFixed(0), FALSE, FALSE)
        ELSE IF raw.status = "Error"
        THEN HeaderResult("FatalError", "BadRequest", FALSE, BodyFixed(0),
                          FALSE, FALSE)
        ELSE IF raw.len # end + 4 /\ checked
        THEN HeaderResult("Panic", "", FALSE, BodyFixed(0), FALSE, FALSE)
        ELSE
        LET sh == scan_headers(raw.version, raw.headers)
        IN  IF ~sh.ok
            THEN HeaderResult("FatalError", "BadRequest", FALSE,
                              BodyFixed(0), FALSE, FALSE)
            ELSE IF /\ o.some /\ o.mode.k = "Buffered"
                    /\ sh.body.k = "Fixed"
                    /\ payload_too_large(sh.body.n, o.mode.n)
            THEN HeaderResult("FatalError", "PayloadTooLarge", TRUE,
                              sh.body, sh.close, sh.expect)
            ELSE IF o.some
            THEN HeaderResult("Okay", "", TRUE, sh.body, sh.close, sh.expect)
            ELSE IF is_started(o.resp)
            THEN HeaderResult("ForceClose", "", TRUE, sh.body, sh.close,
                              sh.expect)
            ELSE IF fatal_after_none(sh.close, sh.body)
            THEN HeaderResult("FatalError", "BadRequest", TRUE, sh.body,
                              sh.close, sh.expect)
            ELSE HeaderResult("NormError", "BadRequest", TRUE, sh.body,
                              sh.close, sh.expect)

(***************************************************************************)
(* Protocol::bytes_read                                                    *)
(***************************************************************************)
\* Idle: start_headers
BytesReadIdle ==
    /\ st = "Idle" /\ ExpectationMet
    /\ event' = "bytes_read"
    /\ Step("ReadHeaders", 0, machine, progress, response, connection_close,
            Delimiter(0, 4, MAX_HEADERS_SIZE), inp, <<>>, <<>>, <<>>, consumed)
    /\ msg' = msg + 1
    /\ mode' = NoMode
    /\ UNCHANGED <<mvars, fvars, cvars, script, wire, timers>>

\* ReadHeaders(x)
BytesReadHeaders ==
    /\ st = "ReadHeaders" /\ ExpectationMet
    /\ event' = "bytes_read"
    /\ \E o \in HeadersReceivedOutcomes(ResponseNew(is_head(End))),
          checked \in BOOLEAN :
         LET res == parse_headers(End, o, checked)
             calls2 == IF res.called THEN Append(calls, "headers_received")
                       ELSE calls
             out2 == IF res.called
                     THEN out \o Written(ResponseNew(is_head(End)), o.resp)
                     ELSE out
         IN  /\ CASE res.kind = "Panic" -> Panic
               [] res.kind = "Incomplete" ->
                    Step("ReadHeaders", scanned + 1, machine, progress,
                         response, connection_close,
                         intent("ReadHeaders", scanned + 1, progress),
                         inp, out, calls, delivered, consumed)
               [] res.kind = "Okay" ->
                    Step("ReadingBody", scanned, TRUE,
                         start_body(o.mode, res.body), o.resp, res.close,
                         BodyExpectation(start_body(o.mode, res.body)),
                         Consume(inp, End + 4),
                         IF send_continue(res.expect, o.resp)
                         THEN out2 \o <<"C100">> ELSE out2,
                         calls2, delivered, consumed + End + 4)
               [] res.kind = "NormError" ->
                    IF emit_error_page_panics(ResponseNew(is_head(End)))
                    THEN Panicked(out2 \o ErrorHead(res.code), calls2,
                                  delivered)
                    ELSE
                    \* the error page is complete: finish() returns true
                    Step("Idle", scanned, FALSE, NoProgress, "Done",
                         connection_close, Bytes(0), Consume(inp, End + 4),
                         out2 \o emit_error_page(res.code), calls2,
                         delivered, consumed + End + 4)
               [] res.kind = "FatalError" ->
                    flush(inp, out2 \o emit_error_page(res.code), "Done",
                          calls2, delivered, consumed)
               [] OTHER ->
                    Terminate(out2, o.resp, calls2)
             /\ mode' = IF res.called /\ o.some THEN o.mode ELSE mode
    /\ UNCHANGED <<mvars, fvars, cvars, script, wire, msg, timers>>

\* what Server::bad_request, invoked through Option::map, leaves in the
\* response
BadRequestOutcomes(m, r) == IF m THEN RespOps(r) ELSE {r}

\* the bad_request callback followed by Parser::error(BadRequest)
bad_request_error(inp2, consumed2) ==
    \E r2 \in BadRequestOutcomes(machine, response) :
        error(r2, "BadRequest", inp2, out \o Written(response, r2),
              Called(machine, calls, "bad_request"), consumed2)

\* ReadingBody, BufferFixed(x)
BytesReadBufferFixed ==
    /\ st = "ReadingBody" /\ progress.k = "BufferFixed" /\ ExpectationMet
    /\ event' = "bytes_read"
    /\ \E o \in Outcomes(machine, response) :
         LET x == progress.left
         IN  complete(o.some, o.resp, connection_close, Consume(inp, x),
                      out \o Written(response, o.resp),
                      Called(machine, calls, "request_received"),
                      IF machine THEN delivered \o Slice(inp, 0, x)
                      ELSE delivered,
                      consumed + x)
    /\ UNCHANGED <<mvars, fvars, cvars, script, wire, mode, msg, timers>>

\* variant that compares the chunk alone with the limit
chunk_too_large_alone(off, chunk_len, limit) == chunk_len > limit

\* the chunk does not fit into the limit of RecvMode::Buffered
chunk_too_large(off, chunk_len, limit) == off + chunk_len > limit

\* ReadingBody, BufferChunked(limit, off, 0): a chunk-size line
BytesReadBufferChunkedSize ==
    /\ st = "ReadingBody" /\ progress.k = "BufferChunked"
    /\ event' = "bytes_read"
    /\ progress.left = 0 /\ ExpectationMet
    /\ LET limit == progress.lim
           off == progress.off
           lenstart == consumed_(off)
           stop == lenstart + End + 2
           size == parse_chunk_size(Slice(inp, lenstart, stop))
           spliced == RemoveRange(inp, off, stop)
       IN  CASE size[1] = "Complete" /\ size[2] = 0 ->
                  \E o \in Outcomes(machine, response) :
                      complete(o.some, o.resp, connection_close,
                               Consume(spliced, off),
                               out \o Written(response, o.resp),
                               Called(machine, calls, "request_received"),
                               IF machine
                               THEN delivered \o Slice(spliced, 0, off)
                               ELSE delivered,
                               consumed + stop)
             [] size[1] = "Complete" /\ size[2] > 0 ->
                  IF chunk_too_large(off, size[2], limit)
                  THEN bad_request_error(Consume(inp, stop), consumed + stop)
                  ELSE reading_body(machine,
                           Progress("BufferChunked", limit, off, size[2]),
                           response, spliced, out, calls, delivered,
                           consumed + (stop - off))
             [] size[1] = "Error" ->
                  bad_request_error(Consume(inp, stop), consumed + stop)
             [] OTHER -> Panic
    /\ UNCHANGED <<mvars, fvars, cvars, script, wire, mode, msg, timers>>

\* ReadingBody, BufferChunked(limit, off, bytes): the chunk is in the buffer
BytesReadBufferChunkedData ==
    /\ st = "ReadingBody" /\ progress.k = "BufferChunked"
    /\ event' = "bytes_read"
    /\ progress.left > 0 /\ ExpectationMet
    /\ reading_body(machine,
           Progress("BufferChunked", progress.lim,
                    progress.off + progress.left, 0),
           response, inp, out, calls, delivered, consumed)
    /\ UNCHANGED <<mvars, fvars, cvars, script, wire, mode, msg, timers>>

\* ReadingBody, ProgressiveFixed(hint, left)
BytesReadProgressiveFixed ==
    /\ st = "ReadingBody" /\ progress.k = "ProgressiveFixed" /\ ExpectationMet
    /\ event' = "bytes_read"
    /\ LET real_bytes == Min(Len(inp), progress.left)
           left == progress.left - real_bytes
           inp2 == Consume(inp, real_bytes)
           delivered2 == IF machine
                         THEN delivered \o Slice(inp, 0, real_bytes)
                         ELSE delivered
           calls2 == Called(machine, calls, "request_chunk")
       IN  \E o \in Outcomes(machine, response) :
             LET out2 == out \o Written(response, o.resp)
             IN  IF left = 0
                 THEN \E o2 \in Outcomes(o.some, o.resp) :
                        complete(o2.some, o2.resp, connection_close, inp2,
                                 out2 \o Written(o.resp, o2.resp),
                                 Called(o.some, calls2, "request_end"),
                                 delivered2, consumed + real_bytes)
                 ELSE reading_body(o.some,
                          Progress("ProgressiveFixed", progress.lim, 0, left),
                          o.resp, inp2, out2, calls2, delivered2,
                          consumed + real_bytes)
    /\ UNCHANGED <<mvars, fvars, cvars, script, wire, mode, msg, timers>>

\* ReadingBody, ProgressiveChunked(hint, off, 0): a chunk-size line
BytesReadProgressiveChunkedSize ==
    /\ st = "ReadingBody" /\ progress.k = "ProgressiveChunked"
    /\ event' = "bytes_read"
    /\ progress.left = 0 /\ ExpectationMet
    /\ LET hint == progress.lim
           off == progress.off
           stop == off + End + 2
           size == parse_chunk_size(Slice(inp, off, stop))
           spliced == RemoveRange(inp, off, stop)
       IN  CASE size[1] = "Complete" /\ size[2] = 0 ->
                  \E o \in Outcomes(machine /\ off > 0, response) :
                    LET m == IF off > 0 THEN o.some ELSE machine
                        calls2 == IF off > 0
                                  THEN Called(machine, calls, "request_chunk")
                                  ELSE calls
                    IN  \E o2 \in Outcomes(m, o.resp) :
                          complete(o2.some, o2.resp, connection_close,
                                   Consume(spliced, off),
                                   out \o Written(response, o.resp)
                                       \o Written(o.resp, o2.resp),
                                   Called(m, calls2, "request_end"),
                                   IF machine /\ off > 0
                                   THEN delivered \o Slice(spliced, 0, off)
                                   ELSE delivered,
                                   consumed + stop)
             [] size[1] = "Complete" /\ size[2] > 0 ->
                  reading_body(machine,
                      Progress("ProgressiveChunked", hint, off, size[2]),
                      response, spliced, out, calls, delivered,
                      consumed + (stop - off))
             [] size[1] = "Error" ->
                  bad_request_error(Consume(inp, stop), consumed + stop)
             [] OTHER -> Panic
    /\ UNCHANGED <<mvars, fvars, cvars, script, wire, mode, msg, timers>>

\* ReadingBody, ProgressiveChunked(hint, off, left): chunk data.
\* checked: arithmetic overflow panics (debug build); otherwise it wraps
BytesReadProgressiveChunkedData ==
    /\ st = "ReadingBody" /\ progress.k = "ProgressiveChunked"
    /\ event' = "bytes_read"
    /\ progress.left > 0 /\ ExpectationMet
    /\ \E checked \in BOOLEAN :
       LET hint == progress.lim
           off == progress.off
           whole == (off + progress.left) % U64 = End - 2
           inp1 == IF whole THEN RemoveRange(inp, End - 2, End) ELSE inp
           ln == IF whole THEN off + progress.left ELSE Len(inp1)
           overflow == (ln - off) > progress.left
                       \/ off + progress.left >= U64
           left == (progress.left - (ln - off)) % U64
           removed == IF whole THEN 2 ELSE 0
       IN  IF overflow /\ checked
           THEN Panic
           ELSE IF ln < hint
           THEN reading_body(machine,
                    Progress("ProgressiveChunked", hint, ln, left),
                    response, inp1, out, calls, delivered,
                    consumed + removed)
           ELSE \E o \in Outcomes(machine, response) :
                  reading_body(o.some,
                      Progress("ProgressiveChunked", hint, 0, left),
                      o.resp, Consume(inp1, ln),
                      out \o Written(response, o.resp),
                      Called(machine, calls, "request_chunk"),
                      IF machine
                      THEN delivered \o Slice(inp1, 0, ln)
                      ELSE delivered,
                      consumed + removed + ln)
    /\ UNCHANGED <<mvars, fvars, cvars, script, wire, mode, msg, timers>>

(***************************************************************************)
(* Protocol::bytes_flushed, exception, timeout, wakeup                     *)
(***************************************************************************)
\* variant of bytes_flushed that notifies the handler before closing
BytesFlushed_notify ==
    /\ exp.k = "Flush"
    /\ event' = "bytes_flushed"
    /\ Terminate(out, response, Append(calls, "wakeup"))
    /\ UNCHANGED <<mvars, fvars, cvars, script, wire, mode, msg, timers>>

\* variant that keeps the machine and asks for the flush again
BytesFlushed_stay ==
    /\ exp.k = "Flush"
    /\ event' = "bytes_flushed"
    /\ Step(st, scanned, machine, progress, response, connection_close,
            intent(st, scanned, progress), inp, out, calls, delivered,
            consumed)
    /\ UNCHANGED <<mvars, fvars, cvars, script, wire, mode, msg, timers>>

\* the adapter reports a flush only for a Flush expectation, which only
\* DoneResponse registers
BytesFlushed ==
    /\ exp.k = "Flush"
    /\ event' = "bytes_flushed"
    /\ IF st = "DoneResponse"
       THEN Terminate(out, response, calls)
       ELSE Step(st, scanned, machine, progress, response, connection_close,
                 intent(st, scanned, progress), inp, out, calls, delivered,
                 consumed)
    /\ UNCHANGED <<mvars, fvars, cvars, script, wire, mode, msg, timers>>

\* exception(LimitReached): the delimiter is not within max bytes
ExceptionLimitReached ==
    /\ Parked /\ exp.k = "Delimiter" /\ Len(inp) > exp.max
    /\ event' = "LimitReached"
    /\ CASE st = "ReadHeaders" -> raw_error("RequestHeaderFieldsTooLarge")
         [] st = "ReadingBody" ->
              IF progress.k \in {"ProgressiveChunked", "BufferChunked"}
                 /\ progress.left = 0
              THEN bad_request_error(inp, consumed)
              ELSE Panic
         [] OTHER -> Panic
    /\ UNCHANGED <<mvars, fvars, cvars, script, wire, mode, msg, timers>>

\* exception(EndOfStream): the client closed its side
ExceptionEndOfStream ==
    /\ Parked /\ Reading
    /\ event' = "EndOfStream"
    /\ wire' = <<>>
    /\ CASE st = "ReadingBody" -> bad_request_error(inp, consumed)
         [] st = "Processing" -> Panic
         [] OTHER -> Terminate(out, response, calls)
    /\ UNCHANGED <<mvars, fvars, cvars, script, mode, msg, timers>>

\* exception(ReadError) and exception(WriteError)
ExceptionIoError ==
    /\ Parked
    /\ event' = "IoError"
    /\ Terminate(out, response, calls)
    /\ UNCHANGED <<mvars, fvars, cvars, script, wire, mode, msg, timers>>

Timeout ==
    /\ Parked /\ timers < MaxTimers
    /\ event' = "timeout"
    /\ timers' = timers + 1
    /\ CASE st \in {"Idle", "DoneResponse"} ->
              Terminate(out, response, calls)
         [] st = "ReadHeaders" -> raw_error("RequestTimeout")
         [] st = "ReadingBody" ->
              \E o \in Outcomes(machine, response) :
                LET out2 == out \o Written(response, o.resp)
                    calls2 == Called(machine, calls, "timeout")
                IN  IF o.some
                    THEN reading_body(TRUE, progress, o.resp, inp, out2,
                                      calls2, delivered, consumed)
                    ELSE error(o.resp, "RequestTimeout", inp, out2, calls2,
                               consumed)
         [] OTHER ->
              \E o \in Outcomes(TRUE, response) :
                LET out2 == out \o Written(response, o.resp)
                    calls2 == Append(calls, "timeout")
                IN  IF o.some
                    THEN complete(TRUE, o.resp, connection_close, inp, out2,
                                  calls2, delivered, consumed)
                    ELSE error(o.resp, "RequestTimeout", inp, out2, calls2,
                               consumed)
    /\ UNCHANGED <<mvars, fvars, cvars, script, wire, mode, msg>>

Wakeup ==
    /\ Parked /\ timers < MaxTimers
    /\ event' = "wakeup"
    /\ timers' = timers + 1
    /\ CASE st \in {"Idle", "ReadHeaders", "DoneResponse"} ->
              Step(st, scanned, machine, progress, response,
                   connection_close, intent(st, scanned, progress), inp,
                   out, calls, delivered, consumed)
         [] st = "ReadingBody" ->
              \E o \in Outcomes(machine, response) :
                reading_body(o.some, progress, o.resp, inp,
                             out \o Written(response, o.resp),
                             Called(machine, calls, "wakeup"), delivered,
                             consumed)
         [] OTHER ->
              \E o \in Outcomes(TRUE, response) :
                complete(o.some, o.resp, connection_close, inp,
                         out \o Written(response, o.resp),
                         Append(calls, "wakeup"), delivered, consumed)
    /\ UNCHANGED <<mvars, fvars, cvars, script, wire, mode, msg>>

(***************************************************************************)
(* The client side of the socket                                           *)
(***************************************************************************)
\* a read moves the next bytes of the stream into the input buffer; the
\* adapter reads only while the registered expectation is not met
Deliver ==
    /\ Parked /\ Reading /\ wire # <<>>
    /\ event' = "read"
    /\ ~(exp.k = "Delimiter" /\ Len(inp) > exp.max)
    /\ \E k \in 1..Len(wire) :
         /\ inp' = inp \o SubSeq(wire, 1, k)
         /\ wire' = SubSeq(wire, k + 1, Len(wire))
    /\ UNCHANGED <<mvars, fvars, cvars, script, out, st, scanned, machine, progress, response,
                   connection_close, exp, mode, msg, calls, delivered,
                   consumed, timers>>

BytesRead ==
    \/ BytesReadIdle
    \/ BytesReadHeaders
    \/ BytesReadBufferFixed
    \/ BytesReadBufferChunkedSize
    \/ BytesReadBufferChunkedData
    \/ BytesReadProgressiveFixed
    \/ BytesReadProgressiveChunkedSize
    \/ BytesReadProgressiveChunkedData

Next ==
    \/ Deliver
    \/ BytesRead
    \/ BytesFlushed
    \/ ExceptionLimitReached
    \/ ExceptionEndOfStream
    \/ ExceptionIoError
    \/ Timeout
    \/ Wakeup

Spec == Init /\ [][Next]_vars

(***************************************************************************)
(* Reference values the properties compare the parser with                 *)
(***************************************************************************)
\* the request the parser is working on, as the client sent it
Cur ==
    IF msg \in DOMAIN script THEN script[msg]
    ELSE Request(<<>>, <<>>, <<>>, FALSE, FALSE)

\* the offset in the stream at which request k ends
EndOffset(k) == Len(WireOf(SubSeq(script, 1, k)))

Range(s) == { s[i] : i \in DOMAIN s }

Count(cs, name) == Cardinality({ i \in DOMAIN cs : cs[i] = name })

IsPrefix(a, b) == Len(a) <= Len(b) /\ a = SubSeq(b, 1, Len(a))

\* the request asks for the connection to be closed: HTTP/1.0, a close
\* token, or both Content-Length and Transfer-Encoding
MustClose(req) ==
    \/ req.head[1] = "R10"
    \/ "CC" \in Range(req.head)
    \/ /\ "TE" \in Range(req.head)
       /\ Range(req.head) \cap {"CL0", "CL2", "CL3"} # {}

Pages == {"P400", "P413", "P408", "P431"}

Closing == {"DoneResponse", "Closed"}

\* the chunk-size line bytes_read is about to parse
SizeLineDue ==
    /\ st = "ReadingBody"
    /\ progress.k \in {"BufferChunked", "ProgressiveChunked"}
    /\ progress.left = 0
    /\ ExpectationMet

SizeLine ==
    LET start == IF progress.k = "BufferChunked"
                 THEN consumed_(progress.off) ELSE progress.off
    IN  parse_chunk_size(Slice(inp, start, start + End + 2))

HeadersReceivedInvoked ==
    Count(calls', "headers_received") > Count(calls, "headers_received")

CallbackInvoked == calls' # calls /\ calls' # <<>>

(***************************************************************************)
(* Properties                                                              *)
(***************************************************************************)
\* C1: the parser is in Idle after a request only if that request's response
\* is Done, the request did not ask to close the connection, and every byte
\* of the request, its body as framed included, has been consumed.
C1_IdleOnlyAfterDoneAndConsumed ==
    (st = "Idle" /\ msg >= 1) =>
        /\ msg \in DOMAIN script
        /\ response = "Done"
        /\ ~MustClose(Cur)
        /\ consumed >= EndOffset(msg)

\* the part of C1 that does not depend on the consumed bytes
C1_IdleOnlyAfterDone ==
    (st = "Idle" /\ msg >= 1) =>
        /\ msg \in DOMAIN script
        /\ response = "Done"
        /\ ~MustClose(Cur)

\* a body-framing error is being reported to the parser in this step
BodyFramingError ==
    /\ st = "ReadingBody"
    /\ \/ event' \in {"LimitReached", "EndOfStream"}
       \/ /\ event' = "bytes_read"
          /\ SizeLineDue
          /\ \/ SizeLine[1] = "Error"
             \/ /\ progress.k = "BufferChunked"
                /\ SizeLine[1] = "Complete"
                /\ progress.off + SizeLine[2] > progress.lim

\* C2: a body-framing error in ReadingBody (malformed chunk-size line, chunk
\* over the buffered limit, LimitReached, end of stream) leads to the closing
\* state; from the closing state the parser never returns to Idle or
\* ReadHeaders and never invokes headers_received again.
C2_FramingErrorCloses ==
    [][ /\ BodyFramingError => st' = "DoneResponse"
        /\ st \in Closing =>
             /\ st' \in Closing
             /\ ~HeadersReceivedInvoked ]_vars

C2_Witness ==
    /\ st = "DoneResponse"
    /\ event = "bytes_read"
    /\ ~Cur.wellformed
    /\ "bad_request" \in Range(calls)

\* C3: headers_received is invoked only from ReadHeaders, so never while the
\* parser is in ReadingBody or Processing, and for every request but the
\* first only after the response to the previous request is Done.
C3_NoPipelining ==
    [][ HeadersReceivedInvoked =>
          /\ st = "ReadHeaders"
          /\ st \notin {"ReadingBody", "Processing"}
          /\ msg > 1 => response = "Done" ]_vars

C3_Witness ==
    /\ msg = 2
    /\ calls # <<>>
    /\ calls[1] = "headers_received"

\* C4: every handler callback is invoked while the parser is in ReadHeaders,
\* ReadingBody or Processing, never after it left for Idle, closing or
\* termination, and the first callback of a request is headers_received.
C4_CallbacksInOrder ==
    [][ CallbackInvoked =>
          /\ st \in {"ReadHeaders", "ReadingBody", "Processing"}
          /\ calls'[1] = "headers_received"
          /\ Count(calls', "headers_received") = 1 ]_vars

C4_Witness ==
    /\ st = "Idle"
    /\ Len(calls) >= 3
    /\ calls[2] = "request_chunk"

\* C5: headers_received, request_received, request_end and bad_request are
\* each invoked at most once per message, and bad_request is the last
\* callback of its message.
C5_AtMostOnce ==
    /\ \A c \in {"headers_received", "request_received", "request_end",
                 "bad_request"} : Count(calls, c) <= 1
    /\ \A i \in DOMAIN calls : calls[i] = "bad_request" => i = Len(calls)

C5_Witness ==
    /\ Len(calls) = 3
    /\ calls[2] = "request_chunk"
    /\ calls[3] = "bad_request"

\* C6: once the status line of a response is written, no error page is
\* written after it for that request.
C6_NoErrorPageAfterStart ==
    \A i, j \in DOMAIN out : (i < j /\ out[i] = "S") => out[j] \notin Pages

\* C7: in Progressive mode the bytes passed to request_chunk for a
\* well-formed chunked request are a prefix of the chunk payloads, and they
\* are all of them when request_end, invoked at most once, is invoked.
C7_ProgressiveChunks ==
    (/\ mode.k = "Progressive"
     /\ msg \in DOMAIN script
     /\ Cur.chunked /\ Cur.wellformed) =>
        /\ IsPrefix(delivered, Cur.payload)
        /\ Count(calls, "request_end") <= 1
        /\ "request_end" \in Range(calls) => delivered = Cur.payload

\* a well-formed chunked request whose payload fits the buffered limit
BufferedChunkedWithinLimit ==
    /\ mode.k = "Buffered"
    /\ msg \in DOMAIN script
    /\ Cur.chunked /\ Cur.wellformed
    /\ Len(Cur.payload) <= mode.n

BufferedChunkedCallbacks ==
    BufferedChunkedWithinLimit =>
        /\ Count(calls, "request_chunk") = 0
        /\ Count(calls, "request_end") = 0
        /\ Count(calls, "request_received") <= 1
        /\ Count(calls, "request_received") = 1 => delivered = Cur.payload
        /\ Count(calls, "request_received") = 0 => delivered = <<>>

\* C8: for a well-formed chunked request within the limit of Buffered mode,
\* request_chunk and request_end are never invoked and request_received at
\* most once, with the contiguous chunk payloads; when bytes_read ends the
\* body with the handler present, request_received is invoked exactly once,
\* however the bytes were split into reads.
C8_BufferedChunks ==
    [][ /\ BufferedChunkedCallbacks'
        /\ (/\ BufferedChunkedWithinLimit
            /\ st = "ReadingBody" /\ machine
            /\ event' = "bytes_read"
            /\ st' # "ReadingBody") =>
               /\ Count(calls', "request_received") = 1
               /\ delivered' = Cur.payload ]_vars

C8_Witness ==
    /\ BufferedChunkedWithinLimit
    /\ Len(Cur.payload) = 3
    /\ Len(Cur.body) > 13
    /\ st = "Processing"
    /\ Count(calls, "request_received") = 1

\* bytes_read is about to parse the size of a chunk that does not fit
OverLimitChunk ==
    /\ SizeLineDue
    /\ progress.k = "BufferChunked"
    /\ SizeLine[1] = "Complete"
    /\ SizeLine[2] > 0
    /\ progress.off + SizeLine[2] > progress.lim

\* C9: in Buffered(limit) mode the buffered body never exceeds the limit; a
\* chunk with off + chunk_len > limit makes the parser invoke bad_request
\* (once, on a present handler), write the 400 page exactly when the
\* response is not started, and enter the closing state; request_received
\* is not invoked for a message that got bad_request.
C9_ChunkOverLimit ==
    [][ /\ progress'.k = "BufferChunked" =>
             progress'.off + progress'.left <= progress'.lim
        /\ "bad_request" \in Range(calls') =>
             "request_received" \notin Range(calls')
        /\ OverLimitChunk =>
             /\ st' = "DoneResponse"
             /\ calls' = Called(machine, calls, "bad_request")
             /\ Count(calls', "bad_request") <= 1
             /\ "S" \notin Range(out') =>
                  out' # <<>> /\ out'[Len(out')] = "P400"
             /\ "S" \in Range(out') => Range(out') \cap Pages = {} ]_vars

C9_Witness ==
    /\ st = "DoneResponse"
    /\ event = "bytes_read"
    /\ mode.k = "Buffered"
    /\ Cur.chunked /\ Cur.wellformed
    /\ Len(Cur.payload) > mode.n
    /\ calls = <<"headers_received", "bad_request">>
    /\ out = <<"P400">>

\* C10: when the parser is back in Idle, the bytes removed from the input
\* buffer are exactly the bytes of the requests completed so far: header
\* block plus the whole framed body.
C10_ConsumedWholeRequest ==
    (st = "Idle" /\ msg \in DOMAIN script) => consumed = EndOffset(msg)

\* the request carries Expect: 100-continue
HasExpect(req) == "EX" \in Range(req.head)

\* the request has no body: body kind Fixed(0)
NoBody(req) == ~req.chunked /\ req.body = <<>>

\* C11: the 100 Continue line is written in the step that invokes
\* headers_received, exactly when the request carries Expect: 100-continue,
\* the parser enters ReadingBody (the handler returned Some and the request
\* was not rejected) and no status line was written; it is then the first
\* output of the request, written before any body byte is passed on, and no
\* other step writes it, so there is at most one per request.
C11_ContinueLine ==
    [][ /\ HeadersReceivedInvoked =>
             ("C100" \in Range(out') <=>
                 /\ HasExpect(Cur)
                 /\ st' = "ReadingBody"
                 /\ "S" \notin Range(out'))
        /\ ("C100" \in Range(out') /\ "C100" \notin Range(out)) =>
             /\ HeadersReceivedInvoked
             /\ out' = <<"C100">>
             /\ delivered' = <<>>
        /\ Count(out', "C100") <= 1 ]_vars

C11_Witness ==
    /\ HasExpect(Cur)
    /\ out # <<>> /\ out[1] = "C100"
    /\ "request_received" \in Range(calls)

\* headers_received answered Buffered(limit) to a request whose fixed body
\* is at least limit bytes long
RejectedTooLarge ==
    /\ mode.k = "Buffered"
    /\ msg \in DOMAIN script
    /\ ~Cur.chunked
    /\ Len(Cur.body) >= mode.n

ReturnedNone == calls # <<>> /\ mode = NoMode

\* C13: when headers_received returns None without having started the
\* response, the 400 page is written; the parser goes to Idle exactly when
\* the request has no body and does not ask to close, and to the closing
\* state otherwise; no other callback is invoked for the request.
C13_HandlerDeclines ==
    [][ /\ (HeadersReceivedInvoked /\ mode' = NoMode
            /\ "S" \notin Range(out')) =>
               /\ out' = <<"P400">>
               /\ response' = "Done"
               /\ IF NoBody(Cur) /\ ~MustClose(Cur)
                  THEN st' = "Idle"
                  ELSE st' = "DoneResponse"
        /\ ReturnedNone' =>
               /\ calls' = <<"headers_received">>
               /\ delivered' = <<>>
               /\ st' # "ReadingBody" ]_vars

C13_Witness ==
    /\ ReturnedNone
    /\ st = "Idle"
    /\ out = <<"P400">>

\* C14: a timeout in ReadingBody or Processing invokes the timeout callback
\* of a present handler and either keeps the state and the body progress or
\* goes to the closing state, with the 408 page exactly when no status line
\* was written; a timeout in ReadHeaders writes the 408 page and closes
\* without a callback; a timeout never invokes bad_request.
C14_Timeout ==
    [][ event' = "timeout" =>
          /\ Count(calls', "bad_request") = Count(calls, "bad_request")
          /\ st = "ReadHeaders" =>
               /\ st' = "DoneResponse"
               /\ calls' = calls
               /\ out' = out \o <<"P408">>
          /\ st \in {"ReadingBody", "Processing"} =>
               /\ calls' = Called(st = "Processing" \/ machine, calls,
                                  "timeout")
               /\ \/ /\ st' = st
                     /\ progress' = progress
                     /\ machine'
                     /\ Range(out') \cap Pages = {}
                  \/ /\ st' = "DoneResponse"
                     /\ "S" \notin Range(out') =>
                          out' # <<>> /\ out'[Len(out')] = "P408"
                     /\ "S" \in Range(out') =>
                          Range(out') \cap Pages = {} ]_vars

C14_Witness ==
    /\ event = "timeout"
    /\ st = "DoneResponse"
    /\ "timeout" \in Range(calls)
    /\ out # <<>> /\ out[Len(out)] = "P408"


(***************************************************************************)
(* The message builder (src/src/message.rs): operations                    *)
(*                                                                         *)
(* The output buffer is a sequence of tokens: "STATUS" is the version at   *)
(* the start of a status line, which the digits of the code, "CR" and "LF" *)
(* follow; "REQUEST" is the request line with its CRLF; a header is its    *)
(* name, ": ", the tokens of its value, "CR", "LF"; a body byte is "z";    *)
(* decimal and hexadecimal digits are one token each.                      *)
(***************************************************************************)
Digit(d) ==
    CASE d = 0 -> "0" [] d = 1 -> "1" [] d = 2 -> "2" [] d = 3 -> "3"
      [] d = 4 -> "4" [] d = 5 -> "5" [] d = 6 -> "6" [] d = 7 -> "7"
      [] d = 8 -> "8" [] d = 9 -> "9" [] d = 10 -> "a" [] d = 11 -> "b"
      [] d = 12 -> "c" [] d = 13 -> "d" [] d = 14 -> "e" [] OTHER -> "f"

\* u64::to_string
RECURSIVE to_string(_)
to_string(n) ==
    IF n < 10 THEN <<Digit(n)>>
    ELSE to_string(n \div 10) \o <<Digit(n % 10)>>

\* format!("{:x}", n)
RECURSIVE LowerHex(_)
LowerHex(n) ==
    IF n < 16 THEN <<Digit(n)>>
    ELSE LowerHex(n \div 16) \o <<Digit(n % 16)>>

\* the header names given to add_header
HeaderNames ==
    {"Content-Type", "Content-Length", "content-length", "CONTENT-LENGTH",
     "Transfer-Encoding", "transfer-encoding", "Transfer-encoding"}

\* u8::to_ascii_lowercase over a name
to_ascii_lowercase(name) ==
    CASE name \in {"Content-Length", "content-length", "CONTENT-LENGTH"}
           -> "content-length"
      [] name \in {"Transfer-Encoding", "transfer-encoding",
                   "Transfer-encoding"}
           -> "transfer-encoding"
      [] name = "Content-Type" -> "content-type"
      [] name = "Connection" -> "connection"
      [] OTHER -> name

\* variant that compares the names byte for byte
eq_exact(a, b) == a = b

\* str::eq_ignore_ascii_case
eq_ignore_ascii_case(a, b) == to_ascii_lowercase(a) = to_ascii_lowercase(b)

\* the payload of a write_body call
Data(len) == [i \in 1..len |-> "z"]

\* what an operation leaves: the state, the buffer and what it returned
\* ("Ok", "OkTrue", "OkFalse", "Err" or "Panic")
Result(state, b, result) == [state |-> state, buf |-> b, result |-> result]

\* Message::response_status
response_status(m, b, code) ==
    IF m.k = "ResponseStart"
    THEN Result(Headers(IF code = 101 \/ code = 204 THEN "Denied"
                        ELSE IF m.body = "Normal" /\ code = 304
                        THEN "Ignored"
                        ELSE m.body,
                        FALSE, m.close, FALSE, NoLength),
                b \o <<"STATUS">> \o to_string(code) \o CRLF, "Ok")
    ELSE Result(m, b, "Panic")

\* Message::request_line
request_line(m, b) ==
    IF m.k = "RequestStart"
    THEN Result(Headers("Normal", FALSE, FALSE, TRUE, NoLength),
                b \o <<"REQUEST">>, "Ok")
    ELSE Result(m, b, "Panic")

\* Message::write_header
write_header(b, name, value) == b \o <<name, ": ">> \o value \o CRLF

\* Message::add_header
add_header(m, b, name, value) ==
    IF \/ eq_ignore_ascii_case(name, "Content-Length")
       \/ eq_ignore_ascii_case(name, "Transfer-Encoding")
    THEN Result(m, b, "Err")
    ELSE IF m.k = "Headers"
    THEN Result(m, write_header(b, name, value), "Ok")
    ELSE Result(m, b, "Panic")

\* Message::add_length
add_length(m, b, n) ==
    IF m.k # "Headers" THEN Result(m, b, "Panic")
    ELSE IF m.content_length # NoLength THEN Result(m, b, "Err")
    ELSE IF m.chunked THEN Result(m, b, "Err")
    ELSE Result([m EXCEPT !.content_length = n],
                write_header(b, "Content-Length", to_string(n)), "Ok")

\* Message::add_chunked
add_chunked(m, b) ==
    IF m.k # "Headers" THEN Result(m, b, "Panic")
    ELSE IF m.content_length # NoLength THEN Result(m, b, "Err")
    ELSE IF m.chunked THEN Result(m, b, "Err")
    ELSE Result([m EXCEPT !.chunked = TRUE],
                write_header(b, "Transfer-Encoding", <<"chunked">>), "Ok")

\* variant of done_headers that refuses a request without a framing header
request_body_undetermined(m) ==
    /\ m.body = "Normal" /\ m.content_length = NoLength /\ ~m.chunked

\* done_headers cannot tell the size of the body: a response with a normal
\* body and neither Content-Length nor Transfer-Encoding
body_undetermined(m) ==
    /\ m.body = "Normal" /\ m.content_length = NoLength /\ ~m.chunked
    /\ ~m.request

\* Message::done_headers
done_headers(m, b) ==
    IF m.k # "Headers" THEN Result(m, b, "Panic")
    ELSE
    LET b1 == IF m.close
              THEN add_header(m, b, "Connection", <<"close">>).buf
              ELSE b
    IN  IF m.body = "Ignored"
        THEN Result(IgnoredBody, b1 \o CRLF, "OkFalse")
        ELSE IF m.body = "Denied"
        THEN Result(ZeroBodyMessage, b1 \o CRLF, "OkFalse")
        ELSE IF m.content_length # NoLength /\ ~m.chunked
        THEN Result(FixedSizeBody(m.content_length), b1 \o CRLF, "OkTrue")
        ELSE IF m.content_length = NoLength /\ m.chunked
        THEN Result(ChunkedBody, b1 \o CRLF, "OkTrue")
        ELSE IF m.content_length # NoLength /\ m.chunked
        THEN Result(m, b1, "Panic")
        ELSE IF body_undetermined(m)
        THEN Result(m, b1 \o CRLF, "Err")
        ELSE Result(ZeroBodyMessage, b1 \o CRLF, "OkFalse")

\* variant of the check of write_body that accepts any length
fixed_size_unchecked(len, x) == FALSE

\* write_body on FixedSizeBody(x): more bytes than are left
fixed_size_exceeded(len, x) == len > x

\* Message::write_body
write_body(m, b, data) ==
    CASE m.k = "ZeroBodyMessage" ->
           IF Len(data) # 0 THEN Result(m, b, "Panic")
           ELSE Result(m, b, "Ok")
      [] m.k = "FixedSizeBody" ->
           IF fixed_size_exceeded(Len(data), m.left)
           THEN Result(m, b, "Panic")
           ELSE Result(FixedSizeBody(m.left - Len(data)), b \o data, "Ok")
      [] m.k = "ChunkedBody" ->
           Result(m, b \o LowerHex(Len(data)) \o CRLF \o data, "Ok")
      [] OTHER -> Result(m, b, "Panic")

\* Message::is_complete
message_is_complete(m) == m.k = "Done"

\* variant of done that writes the terminator of a chunked body again
done_again(m, b) ==
    CASE m.k \in {"ChunkedBody", "Done"} ->
           Result(Done, b \o <<"0">> \o CRLF, "Ok")
      [] m.k = "FixedSizeBody" /\ m.left = 0 -> Result(Done, b, "Ok")
      [] m.k \in {"ZeroBodyMessage", "IgnoredBody"} -> Result(Done, b, "Ok")
      [] OTHER -> Result(m, b, "Panic")

\* Message::done
done(m, b) ==
    CASE m.k = "ChunkedBody" -> Result(Done, b \o <<"0">> \o CRLF, "Ok")
      [] m.k = "FixedSizeBody" /\ m.left = 0 -> Result(Done, b, "Ok")
      [] m.k \in {"ZeroBodyMessage", "IgnoredBody"} -> Result(Done, b, "Ok")
      [] m.k = "Done" -> Result(m, b, "Ok")
      [] OTHER -> Result(m, b, "Panic")

(***************************************************************************)
(* The message builder driven by an arbitrary caller                       *)
(***************************************************************************)
\* the status codes given to response_status
StatusCodes == {100, 101, 199, 200, 204, 304}

\* Response::new(out_buf, version, is_head, do_close), with close standing
\* for do_close || version == Http10, and the client's RequestStart
NewMessages ==
    { [state |-> ResponseStart(IF h THEN "Ignored" ELSE "Normal", c),
       hist |-> History(h, FALSE, 0, NoLength, 0)] : h, c \in BOOLEAN }
    \cup { [state |-> RequestStart,
            hist |-> History(FALSE, TRUE, 0, NoLength, 0)] }

MsgInit ==
    /\ \E new \in NewMessages : mstate = new.state /\ mhist = new.hist
    /\ mbuf = <<>>
    /\ mlast = NoCall
    /\ script = <<>>
    /\ wire = <<>>
    /\ inp = <<>>
    /\ out = <<>>
    /\ st = "Closed"
    /\ scanned = 0
    /\ machine = FALSE
    /\ progress = NoProgress
    /\ response = "Start"
    /\ connection_close = FALSE
    /\ exp = NoExpectation
    /\ mode = NoMode
    /\ msg = 0
    /\ calls = <<>>
    /\ delivered = <<>>
    /\ consumed = 0
    /\ event = "create"
    /\ timers = 0
    /\ NoFunction
    /\ NoClient

\* the caller holds the message and has not been stopped by a panic
Callable ==
    /\ mstate.k # "None"
    /\ mlast.result # "Panic"
    /\ mhist.ops < MaxOps

\* the operation op(name, n) returned r
Invoke(r, op, name, n, hist) ==
    /\ mstate' = r.state
    /\ mbuf' = r.buf
    /\ mlast' = Call(op, name, n, r.result)
    /\ mhist' = [hist EXCEPT !.ops = mhist.ops + 1]
    /\ UNCHANGED <<pvars, fvars, cvars>>

MsgResponseStatus ==
    /\ Callable
    /\ \E code \in StatusCodes :
         LET r == response_status(mstate, mbuf, code)
         IN  Invoke(r, "response_status", "", code,
                    IF r.result = "Ok" THEN [mhist EXCEPT !.code = code]
                    ELSE mhist)

MsgRequestLine ==
    /\ Callable
    /\ Invoke(request_line(mstate, mbuf), "request_line", "", 0, mhist)

MsgAddHeader ==
    /\ Callable
    /\ \E name \in HeaderNames :
         Invoke(add_header(mstate, mbuf, name, <<"v">>), "add_header", name,
                0, mhist)

MsgAddLength ==
    /\ Callable
    /\ \E n \in 0..MaxLength :
         LET r == add_length(mstate, mbuf, n)
         IN  Invoke(r, "add_length", "", n,
                    IF r.result = "Ok" THEN [mhist EXCEPT !.declared = n]
                    ELSE mhist)

MsgAddChunked ==
    /\ Callable
    /\ Invoke(add_chunked(mstate, mbuf), "add_chunked", "", 0, mhist)

MsgDoneHeaders ==
    /\ Callable
    /\ Invoke(done_headers(mstate, mbuf), "done_headers", "", 0, mhist)

MsgWriteBody ==
    /\ Callable
    /\ \E len \in 0..(MaxLength + 1) :
         Invoke(write_body(mstate, mbuf, Data(len)), "write_body", "", len,
                mhist)

MsgDone ==
    /\ Callable
    /\ Invoke(done(mstate, mbuf), "done", "", 0, mhist)

MsgNext ==
    \/ MsgResponseStatus
    \/ MsgRequestLine
    \/ MsgAddHeader
    \/ MsgAddLength
    \/ MsgAddChunked
    \/ MsgDoneHeaders
    \/ MsgWriteBody
    \/ MsgDone

MsgSpec == MsgInit /\ [][MsgNext]_vars

(***************************************************************************)
(* Properties of the message builder                                       *)
(***************************************************************************)
\* number of body bytes in the output buffer
BodyBytes == Count(mbuf, "z")

\* the operation this step invoked
Invoked(op) == mlast'.op = op /\ mhist'.ops = mhist.ops + 1

\* C15: a message that declared Content-Length n never has more than n body
\* bytes in the output; on a fixed-size body a write_body with more bytes
\* than remain panics and appends nothing, any other write_body appends its
\* bytes, and done succeeds exactly when n body bytes have been written.
C15_FixedSizeBody ==
    [][ /\ mhist'.declared # NoLength => BodyBytes' <= mhist'.declared
        /\ mstate'.k = "FixedSizeBody" =>
             BodyBytes' + mstate'.left = mhist'.declared
        /\ (mstate.k = "FixedSizeBody" /\ Invoked("write_body")) =>
             IF mlast'.n > mhist.declared - BodyBytes
             THEN mlast'.result = "Panic" /\ mbuf' = mbuf /\ mstate' = mstate
             ELSE mlast'.result = "Ok" /\ mbuf' = mbuf \o Data(mlast'.n)
        /\ (mstate.k = "FixedSizeBody" /\ Invoked("done")) =>
             /\ mlast'.result = "Ok" <=> BodyBytes = mhist.declared
             /\ mlast'.result = "Ok" => mstate'.k = "Done"
             /\ mlast'.result # "Ok" => mlast'.result = "Panic"
             /\ mbuf' = mbuf ]_vars

C15_Witness ==
    /\ mstate.k = "Done"
    /\ mlast.op = "done"
    /\ mhist.declared = 2
    /\ BodyBytes = 2
    /\ mhist.code = 200

\* C16: on a chunked body a write_body with an empty slice appends nothing
\* to the output buffer, so that no zero-size chunk is written before done.
C16_EmptyChunkDropped ==
    [][ (mstate.k = "ChunkedBody" /\ Invoked("write_body") /\ mlast'.n = 0)
           => mbuf' = mbuf ]_vars

\* a response that carries no body: to a HEAD request, or with a status
\* 1xx, 204 or 304
NoBodyResponse ==
    /\ ~mhist.request
    /\ mhist.is_head \/ mhist.code \in (100..199) \cup {204, 304}

\* done_headers has closed the header block
HeaderBlockDone ==
    mstate.k \in {"ZeroBodyMessage", "IgnoredBody", "FixedSizeBody",
                  "ChunkedBody", "Done"}

\* C17: once the header block of a response to HEAD, or of a response with
\* status 1xx, 204 or 304, is closed, nothing more is appended to the output
\* buffer, whatever framing header was added and whatever is written.
C17_NoBodyBytes ==
    [][ (NoBodyResponse /\ HeaderBlockDone) => mbuf' = mbuf ]_vars

\* the names of the framing headers, in lower case
FramingNames == {"content-length", "transfer-encoding"}

\* number of framing headers in the output buffer
FramingHeaders ==
    Cardinality({ i \in DOMAIN mbuf :
                    to_ascii_lowercase(mbuf[i]) \in FramingNames })

\* the operation of this step returned an error and changed nothing
Rejected == mlast'.result = "Err" /\ mstate' = mstate /\ mbuf' = mbuf

\* C18: the output never holds more than one framing header and the builder
\* never has both a length and chunked set; add_length and
\* add_chunked after a framing header was added, and add_header with the
\* name of a framing header in any case, return an error and leave the state
\* and the output buffer as they were.
C18_OneFramingHeader ==
    [][ /\ FramingHeaders' <= 1
        /\ ~(mstate'.content_length # NoLength /\ mstate'.chunked)
        /\ ( /\ Invoked("add_length") \/ Invoked("add_chunked")
             /\ mstate.k = "Headers"
             /\ FramingHeaders = 1 ) => Rejected
        /\ ( /\ Invoked("add_header")
             /\ to_ascii_lowercase(mlast'.name) \in FramingNames )
             => Rejected ]_vars

C18_Witness ==
    /\ mlast.op = "add_header"
    /\ mlast.name = "content-length"
    /\ mlast.result = "Err"
    /\ mstate.k = "Headers"
    /\ mstate.chunked
    /\ FramingHeaders = 1

\* position of a state in the lifecycle of a message
Rank(m) ==
    CASE m.k \in {"ResponseStart", "RequestStart"} -> 0
      [] m.k = "Headers" -> 1
      [] m.k = "Done" -> 3
      [] OTHER -> 2

\* number of status lines and request lines in the output buffer
StartLines == Count(mbuf, "STATUS") + Count(mbuf, "REQUEST")

\* C19: the state of a message never moves backwards in the order start,
\* headers, body, done; the status or request line is in the output exactly
\* once from the headers state on and never before; in Done nothing changes
\* the state or the output, done returns normally and every other operation
\* is rejected.
C19_ForwardOnly ==
    [][ /\ Rank(mstate') >= Rank(mstate)
        /\ StartLines' = (IF Rank(mstate') = 0 THEN 0 ELSE 1)
        /\ mstate.k = "Done" =>
             /\ mstate' = mstate
             /\ mbuf' = mbuf
             /\ IF Invoked("done") THEN mlast'.result = "Ok"
                ELSE mlast'.result \in {"Err", "Panic"} ]_vars

C19_Witness ==
    /\ mstate.k = "Done"
    /\ mlast.op = "write_body"
    /\ mlast.result = "Panic"
    /\ mlast.n = 0

\* C20: done_headers returns false when the body is Denied or Ignored, true
\* when the body is Normal and exactly one of the length and chunked is set,
\* and an error for a response with a Normal body and neither; for a request
\* with neither it succeeds, and done then succeeds with no body byte
\* written.
C20_DoneHeaders ==
    [][ /\ (Invoked("done_headers") /\ mstate.k = "Headers") =>
             /\ mstate.body \in {"Denied", "Ignored"} =>
                  mlast'.result = "OkFalse"
             /\ ( /\ mstate.body = "Normal"
                  /\ (mstate.content_length # NoLength) # mstate.chunked )
                  => mlast'.result = "OkTrue"
             /\ ( /\ mstate.body = "Normal"
                  /\ mstate.content_length = NoLength /\ ~mstate.chunked )
                  => IF mstate.request
                     THEN /\ mlast'.result \in {"OkTrue", "OkFalse"}
                          /\ done(mstate', mbuf').result = "Ok"
                     ELSE mlast'.result = "Err"
        /\ ( /\ Invoked("done") /\ mhist.request /\ Rank(mstate) = 2
             /\ FramingHeaders = 0 /\ BodyBytes = 0 )
             => mlast'.result = "Ok" /\ mstate'.k = "Done" /\ mbuf' = mbuf
      ]_vars

C20_Witness ==
    /\ mhist.request
    /\ mstate.k = "Done"
    /\ mlast.op = "done"
    /\ mlast.result = "Ok"
    /\ mbuf = <<"REQUEST">> \o CRLF

\* C21: when done_headers closes the header block of a message, the block
\* holds exactly one Connection: close line if the message was created with
\* close set and none otherwise, also when an earlier done_headers returned
\* an error.
C21_ConnectionClose ==
    [][ ( /\ Invoked("done_headers")
          /\ mstate.k = "Headers"
          /\ mlast'.result \in {"OkTrue", "OkFalse"} )
          => Count(mbuf', "Connection") = (IF mstate.close THEN 1 ELSE 0)
      ]_vars

\* C22: write_body on a response whose body is Ignored or Denied returns
\* normally, appends nothing and leaves the state of the builder unchanged.
C22_IgnoredBodyDropped ==
    [][ ( /\ Invoked("write_body")
          /\ ~mhist.request
          /\ mstate.k \in {"IgnoredBody", "ZeroBodyMessage"} )
          => mlast'.result = "Ok" /\ mbuf' = mbuf /\ mstate' = mstate ]_vars

(***************************************************************************)
(* is_chunked and is_close applied to header values                        *)
(***************************************************************************)
MaxPad == 2

MaxTail == 2

\* sequences over a set of bytes, up to a length
RECURSIVE SeqsUpTo(_, _)
SeqsUpTo(S, n) ==
    IF n = 0 THEN {<<>>}
    ELSE LET shorter == SeqsUpTo(S, n - 1)
         IN  shorter \cup { <<x>> \o w : x \in S, w \in shorter }

Words ==
    { <<"c", "h", "u", "n", "k", "e", "d">>,
      <<"C", "h", "u", "n", "k", "e", "d">>,
      <<"C", "H", "U", "N", "K", "E", "D">>,
      <<"c", "h", "u", "n", "k">>,
      <<"c", "l", "o", "s", "e">>,
      <<"C", "l", "o", "s", "e">>,
      <<"C", "L", "O", "S", "E">>,
      <<"c", "l", "o", "s">>,
      <<"g", "z", "i", "p">>,
      <<>> }

\* header values: blanks, a word, then more bytes
Values ==
    { pad \o w \o tail : pad \in SeqsUpTo({" ", "\t"}, MaxPad), w \in Words,
                         tail \in SeqsUpTo({" ", "x", "d"}, MaxTail) }

TokInit ==
    /\ given \in { [f |-> "token", val |-> v] : v \in Values }
    /\ computed = NoOutput
    /\ NoConnection
    /\ NoBuilder
    /\ NoClient

\* both recognisers applied to the value
Recognise ==
    /\ given.f = "token"
    /\ computed = NoOutput
    /\ computed' = [f |-> "token", is_chunked |-> is_chunked(given.val),
                    is_close |-> is_close(given.val)]
    /\ UNCHANGED <<pvars, mvars, cvars, given>>

TokNext == Recognise

TokSpec == TokInit /\ [][TokNext]_vars

RECURSIVE TrimLeft(_)
TrimLeft(v) ==
    IF v # <<>> /\ Head(v) \in Blank THEN TrimLeft(Tail(v)) ELSE v

RECURSIVE TrimRight(_)
TrimRight(v) ==
    IF v # <<>> /\ v[Len(v)] \in Blank
    THEN TrimRight(SubSeq(v, 1, Len(v) - 1)) ELSE v

\* a value with the blanks at both ends removed and the letters lowercased
Normalised(v) ==
    LET t == TrimRight(TrimLeft(v))
    IN  [i \in 1..Len(t) |-> byte_to_ascii_lowercase(t[i])]

\* C27: is_chunked(v) is true exactly when v, trimmed and lowercased, is
\* "chunked", and is_close(v) exactly when it is "close"; a value with other
\* characters after the token is not recognised.
C27_TokenRecognition ==
    computed.f = "token" =>
        /\ computed.is_chunked
             <=> Normalised(given.val) = <<"c", "h", "u", "n", "k", "e", "d">>
        /\ computed.is_close
             <=> Normalised(given.val) = <<"c", "l", "o", "s", "e">>

\* "chunkedx" or "closed" has been looked at
C27_Witness ==
    /\ computed.f = "token"
    /\ given.val \in { <<"c", "h", "u", "n", "k", "e", "d", "x">>,
                       <<"c", "l", "o", "s", "e", "d">> }

(***************************************************************************)
(* scan_headers of the server and of the client applied to header blocks   *)
(***************************************************************************)
MaxHeaders == 3

BodyEof == [k |-> "Eof", n |-> 0]

\* the test that opens the scanner of the client
no_body(head, code) ==
    head \/ (code > 100 /\ code < 200) \/ code = 204 \/ code = 304

\* header.value.split(|&x| x == b',').any(headers::is_close)
any_is_close(h) ==
    LET tokens == Split(HeaderValue(h), <<>>)
    IN  \E i \in DOMAIN tokens : is_close(tokens[i])

\* scan_headers(is_head, code, headers) of client/parser.rs; the expect
\* field is not part of its result
client_scan_headers(head, code, headers) ==
    IF no_body(head, code)
    THEN ScanState(TRUE, BodyFixed(0), FALSE,
                   \E i \in DOMAIN headers :
                       is_connection(headers[i]) /\ any_is_close(headers[i]),
                   FALSE)
    ELSE ScanLoop(headers, ScanState(TRUE, BodyEof, FALSE, FALSE, FALSE))

ScanLines == {"TE", "TEG", "TEGC", "CL2", "CL3", "CLX", "CC"}

HeaderBlocks == SeqsUpTo(ScanLines, MaxHeaders)

ResponseCodes == {100, 101, 200, 204, 304}

ScanInit ==
    /\ given \in { [f |-> "request", version |-> v, for_head |-> FALSE,
                    code |-> 0, headers |-> h] :
                   v \in {"Http10", "Http11"}, h \in HeaderBlocks }
            \cup { [f |-> "response", version |-> "Http11", for_head |-> hd,
                    code |-> c, headers |-> h] :
                   hd \in BOOLEAN, c \in ResponseCodes, h \in HeaderBlocks }
    /\ computed = NoOutput
    /\ NoConnection
    /\ NoBuilder
    /\ NoClient

\* the server scans the headers of a request
ScanRequest ==
    /\ given.f = "request"
    /\ computed = NoOutput
    /\ computed' = [f |-> "request",
                    r |-> scan_headers(given.version, given.headers)]
    /\ UNCHANGED <<pvars, mvars, cvars, given>>

\* the client scans the headers of a response
ScanResponse ==
    /\ given.f = "response"
    /\ computed = NoOutput
    /\ computed' = [f |-> "response",
                    r |-> client_scan_headers(given.for_head, given.code,
                                              given.headers)]
    /\ UNCHANGED <<pvars, mvars, cvars, given>>

ScanNext == ScanRequest \/ ScanResponse

ScanSpec == ScanInit /\ [][ScanNext]_vars

Scanned == computed.f \in {"request", "response"}

\* the last comma-separated token of the line is chunked
LastIsChunked(h) ==
    LET tokens == Split(HeaderValue(h), <<>>)
    IN  Normalised(tokens[Len(tokens)])
          = <<"c", "h", "u", "n", "k", "e", "d">>

TransferEncodings(headers) ==
    { i \in DOMAIN headers : is_transfer_encoding(headers[i]) }

ContentLengths(headers) ==
    { i \in DOMAIN headers : IsContentLength(headers[i]) }

\* a response that has no body whatever it declares
BodilessResponse ==
    /\ given.f = "response"
    /\ given.for_head \/ given.code \in (100..199) \cup {204, 304}

\* C24: when a Transfer-Encoding header whose last token is chunked is
\* present the body kind is Chunked whatever Content-Length says, and with a
\* Content-Length header also present must_close is set, on either side of
\* the Transfer-Encoding header.
C24_ChunkedOverridesLength ==
    ( /\ Scanned
      /\ ~BodilessResponse
      /\ \E i \in TransferEncodings(given.headers) :
             LastIsChunked(given.headers[i])
      /\ Cardinality(ContentLengths(given.headers)) <= 1 )
    => /\ computed.r.ok
       /\ computed.r.body = BodyChunked
       /\ ContentLengths(given.headers) # {} => computed.r.close

\* C25: a header block with two or more Content-Length headers is a fatal
\* parse error on the server and on the client, wherever they stand.
C25_DuplicateContentLength ==
    ( /\ Scanned
      /\ Cardinality(ContentLengths(given.headers)) >= 2 )
    => ~computed.r.ok

\* C26: a request with Transfer-Encoding headers none of which ends in
\* chunked is a bad request and never gets a Fixed body kind.
C26_UndeterminedLength ==
    ( /\ computed.f = "request"
      /\ TransferEncodings(given.headers) # {}
      /\ \A i \in TransferEncodings(given.headers) :
             ~LastIsChunked(given.headers[i]) )
    => ~computed.r.ok

\* C28: the response to a HEAD request and a response with status 1xx, 204
\* or 304 has the body kind Fixed(0) whatever it declares.
C28_NoBodyResponse ==
    ( /\ computed.f = "response"
      /\ BodilessResponse )
    => computed.r.ok /\ computed.r.body = BodyFixed(0)

(***************************************************************************)
(* The client (src/src/client): responses on the wire                      *)
(***************************************************************************)
CLIENT_MAX_HEADERS_SIZE == 24

\* the number of bytes of write_body calls with these lengths
RECURSIVE Total(_)
Total(chunks) ==
    IF chunks = <<>> THEN 0 ELSE Head(chunks) + Total(Tail(chunks))

\* add_header for each of hdrs, after the operation that returned r
RECURSIVE AddHeaders(_, _)
AddHeaders(r, hdrs) ==
    IF hdrs = <<>> THEN r
    ELSE AddHeaders(add_header(r.state, r.buf, Head(hdrs)[1], Head(hdrs)[2]),
                    Tail(hdrs))

\* write_body for each length of chunks, after the operation that returned r
RECURSIVE WriteBodies(_, _)
WriteBodies(r, chunks) ==
    IF chunks = <<>> THEN r
    ELSE WriteBodies(write_body(r.state, r.buf, Data(Head(chunks))),
                     Tail(chunks))

\* the bytes a handler leaves in the output buffer when it builds a response
\* with Response::new(.., is_head, close), status(code), the headers hdrs,
\* add_length or add_chunked, done_headers, one write_body for each length
\* in chunks, and done
Serialize(head, close, code, hdrs, framing, chunks) ==
    LET r0 == response_status(ResponseStart(IF head THEN "Ignored"
                                            ELSE "Normal", close),
                              <<>>, code)
        r1 == AddHeaders(r0, hdrs)
        r2 == IF framing = "Fixed"
              THEN add_length(r1.state, r1.buf, Total(chunks))
              ELSE add_chunked(r1.state, r1.buf)
        r3 == done_headers(r2.state, r2.buf)
        r4 == WriteBodies(r3, chunks)
    IN  done(r4.state, r4.buf)

\* a response the server sends and what it was made of
ResponseOf(wire_, head, built, code, hdrs, framing, body, close) ==
    [wire |-> wire_, for_head |-> head, built |-> built, code |-> code,
     headers |-> hdrs, framing |-> framing, body |-> body, close |-> close]

Built(close, code, hdrs, framing, chunks) ==
    ResponseOf(Serialize(FALSE, close, code, hdrs, framing, chunks).buf,
               FALSE, TRUE, code, hdrs, framing,
               Data(Total(chunks)), close)

\* the lengths given to the write_body calls of one response
ChunkLengths == {<<>>, <<2>>, <<1, 2>>, <<3>>}

\* with and without Connection: close and a header of the handler's own
BuiltResponses ==
    { Built(x[1], 200, x[2], framing, ch) :
        x \in { <<FALSE, <<>> >>,
                <<TRUE, << <<"Content-Type", <<"t">> >> >> >> },
        framing \in {"Fixed", "Chunked"}, ch \in ChunkLengths }
    \ { Built(x[1], 200, x[2], "Chunked", <<>>) :
          x \in { <<FALSE, <<>> >>,
                  <<TRUE, << <<"Content-Type", <<"t">> >> >> >> } }

\* responses of other servers: chunks that end with CRLF and a last chunk
\* followed by an empty line, Content-Length next to chunked, HTTP/1.0, a
\* response to HEAD that declares a length, a body that ends with the
\* connection, and a broken status line
OtherResponses ==
    { ResponseOf(<<"STATUS", "2", "0", "0", "CR", "LF",
                   "Transfer-Encoding", ": ", "chunked", "CR", "LF",
                   "CR", "LF",
                   "2", "CR", "LF", "z", "z", "CR", "LF",
                   "0", "CR", "LF", "CR", "LF">>,
                 FALSE, FALSE, 200, <<>>, "Chunked", <<"z", "z">>, FALSE),
      ResponseOf(<<"STATUS", "2", "0", "0", "CR", "LF",
                   "Content-Length", ": ", "2", "CR", "LF",
                   "Transfer-Encoding", ": ", "chunked", "CR", "LF",
                   "CR", "LF",
                   "1", "CR", "LF", "z", "CR", "LF",
                   "0", "CR", "LF", "CR", "LF">>,
                 FALSE, FALSE, 200, <<>>, "Chunked", <<"z">>, TRUE),
      ResponseOf(<<"STATUS10", "2", "0", "0", "CR", "LF",
                   "Content-Length", ": ", "1", "CR", "LF",
                   "CR", "LF", "z">>,
                 FALSE, FALSE, 200, <<>>, "Fixed", <<"z">>, TRUE),
      ResponseOf(<<"STATUS", "2", "0", "0", "CR", "LF",
                   "Content-Length", ": ", "2", "CR", "LF",
                   "CR", "LF">>,
                 TRUE, FALSE, 200, <<>>, "Fixed", <<>>, FALSE),
      ResponseOf(<<"STATUS", "2", "0", "0", "CR", "LF", "CR", "LF", "z">>,
                 FALSE, FALSE, 200, <<>>, "Eof", <<"z">>, FALSE),
      ResponseOf(<<"z", "CR", "LF", "CR", "LF">>,
                 FALSE, FALSE, 0, <<>>, "Fixed", <<>>, FALSE),
      \* two chunks, each followed by CRLF
      ResponseOf(<<"STATUS", "2", "0", "0", "CR", "LF",
                   "Transfer-Encoding", ": ", "chunked", "CR", "LF",
                   "CR", "LF",
                   "1", "CR", "LF", "z", "CR", "LF",
                   "2", "CR", "LF", "z", "z", "CR", "LF",
                   "0", "CR", "LF", "CR", "LF">>,
                 FALSE, FALSE, 200, <<>>, "Chunked", <<"z", "z", "z">>,
                 FALSE),
      \* a chunk-size line that is no hexadecimal number
      ResponseOf(<<"STATUS", "2", "0", "0", "CR", "LF",
                   "Transfer-Encoding", ": ", "chunked", "CR", "LF",
                   "CR", "LF",
                   "z", "CR", "LF">>,
                 FALSE, FALSE, 200, <<>>, "Chunked", <<>>, FALSE) }

Responses == BuiltResponses \cup OtherResponses

(***************************************************************************)
(* httparse::Response, as the client calls it                              *)
(***************************************************************************)
ResponseResult(status, len, version, code, headers) ==
    [status |-> status, len |-> len, version |-> version, code |-> code,
     headers |-> headers]

ResponsePartial == ResponseResult("Partial", 0, 1, 0, <<>>)

ResponseError == ResponseResult("Error", 0, 1, 0, <<>>)

DecimalValue(t) == ParseLength(<<t>>)

\* the position (0-based) of the first CR or LF of buf at or after pos
RECURSIVE LineEnd(_, _)
LineEnd(buf, pos) ==
    IF pos >= Len(buf) \/ buf[pos + 1] \in {"CR", "LF"} THEN pos
    ELSE LineEnd(buf, pos + 1)

\* the header lines of buf from pos on, up to the empty line: a name, the
\* colon, the bytes of the value
RECURSIVE ParseResponseHeaders(_, _, _, _, _)
ParseResponseHeaders(buf, pos, version, code, acc) ==
    IF pos >= Len(buf) THEN ResponsePartial
    ELSE LET n == Newline(buf, pos)
         IN  IF n > 0
             THEN ResponseResult("Complete", pos + n, version, code, acc)
             ELSE IF n = 0 THEN ResponsePartial
             ELSE IF pos + 1 >= Len(buf) THEN ResponsePartial
             ELSE IF buf[pos + 2] # ": " THEN ResponseError
             ELSE LET e == LineEnd(buf, pos + 2)
                      m == Newline(buf, e)
                  IN  IF m = 0 THEN ResponsePartial
                      ELSE IF m = -1 THEN ResponseError
                      ELSE ParseResponseHeaders(
                               buf, e + m, version, code,
                               Append(acc, [name |-> buf[pos + 1],
                                            value |-> Slice(buf, pos + 2,
                                                            e)]))

\* httparse::Response::parse: the version, three digits of the code, the
\* end of the status line, the headers
ParseResponse(buf) ==
    LET start == SkipEmptyLines(buf, 0)
    IN  IF start >= Len(buf) THEN ResponsePartial
        ELSE IF buf[start + 1] \notin {"STATUS", "STATUS10"}
        THEN ResponseError
        ELSE IF start + 4 > Len(buf) THEN ResponsePartial
        ELSE IF \E i \in 2..4 : DecimalValue(buf[start + i]) < 0
        THEN ResponseError
        ELSE LET m == Newline(buf, start + 4)
                 code == 100 * DecimalValue(buf[start + 2])
                         + 10 * DecimalValue(buf[start + 3])
                         + DecimalValue(buf[start + 4])
             IN  IF m = 0 THEN ResponsePartial
                 ELSE IF m = -1 THEN ResponseError
                 ELSE ParseResponseHeaders(
                          buf, start + 4 + m,
                          IF buf[start + 1] = "STATUS" THEN 1 ELSE 0,
                          code, <<>>)

\* the header line that stands for a parsed header in scan_headers
LineOf(h) ==
    IF eq_ignore_ascii_case(h.name, "Content-Length")
    THEN IF ParseLength(h.value) >= 0
         THEN LengthLines[ParseLength(h.value) + 1]
         ELSE "CLX"
    ELSE IF eq_ignore_ascii_case(h.name, "Transfer-Encoding")
    THEN IF h.value = <<"chunked">> THEN "TE" ELSE "TEG"
    ELSE IF eq_ignore_ascii_case(h.name, "Connection")
    THEN IF h.value = <<"close">> THEN "CC" ELSE "OTHER"
    ELSE "OTHER"

(***************************************************************************)
(* The client parser (src/src/client/parser.rs)                            *)
(***************************************************************************)
MaxCalls == 8

\* start_body of the client
client_start_body(m, body) ==
    IF m.k = "Buffered"
    THEN CASE body.k = "Fixed" -> Progress("BufferFixed", 0, 0, body.n)
           [] body.k = "Chunked" -> Progress("BufferChunked", m.n, 0, 0)
           [] OTHER -> Progress("BufferEOF", m.n, 0, 0)
    ELSE CASE body.k = "Fixed" -> Progress("ProgressiveFixed", m.n, 0, body.n)
           [] body.k = "Chunked" -> Progress("ProgressiveChunked", m.n, 0, 0)
           [] OTHER -> Progress("ProgressiveEOF", m.n, 0, 0)

\* the expectation ParserImpl::intent computes for Response
ClientBodyExpectation(p) ==
    CASE p.k = "BufferFixed" -> Bytes(p.left)
      [] p.k = "BufferEOF" -> Bytes(p.lim)
      [] p.k = "BufferChunked" ->
           IF p.left = 0
           THEN Delimiter(consumed_(p.off), 2,
                          consumed_(p.off) + MAX_CHUNK_HEAD)
           ELSE Bytes(p.off + p.left + 2)
      [] p.k = "ProgressiveFixed" -> Bytes(Min(p.lim, p.left))
      [] p.k = "ProgressiveEOF" -> Bytes(p.lim)
      [] OTHER ->
           IF p.left = 0
           THEN Delimiter(p.off, 2, p.off + MAX_CHUNK_HEAD)
           ELSE Bytes(Min(p.lim, (p.off + p.left) % U64))

\* ParserImpl::intent of the client
client_intent(state, p) ==
    CASE state \in {"Connecting", "Flushing"} -> Flush
      [] state = "ReadHeaders" -> Delimiter(0, 4, CLIENT_MAX_HEADERS_SIZE)
      [] state = "Response" -> ClientBodyExpectation(p)
      [] OTHER -> Sleep

\* the stream adapter: bytes_read is due, and the end it is given
ClientExpectationMet ==
    CASE cexp.k = "Bytes" -> Len(cinp) >= cexp.a
      [] cexp.k = "Delimiter" ->
           Len(cinp) > cexp.a /\ FindDelim(cinp, cexp.a, cexp.needle) # -1
      [] OTHER -> FALSE

ClientEnd ==
    IF cexp.k = "Bytes" THEN cexp.a
    ELSE FindDelim(cinp, cexp.a, cexp.needle)

\* what a Requester callback may do with the request it is given: nothing,
\* start it, or start and finish it
ReqOps(r) ==
    CASE r = "RequestStart" -> {"RequestStart", "Headers", "Done"}
      [] r = "Headers" -> {"Headers", "Done"}
      [] OTHER -> {r}

\* the machine moves to a state of ParserImpl with the intent of that state
ClientGoto(state, p, req, buf, cs, bytes, head) ==
    /\ cst' = state
    /\ cprogress' = p
    /\ cexp' = client_intent(state, p)
    /\ crequest' = req
    /\ cinp' = buf
    /\ ccalls' = cs
    /\ cdelivered' = bytes
    /\ chead' = head

\* Intent::done(): the connection is closed
ClientDone(buf, cs, bytes, head) ==
    /\ cst' = "Closed"
    /\ cprogress' = NoProgress
    /\ cexp' = NoExpectation
    /\ crequest' = "None"
    /\ cinp' = buf
    /\ ccalls' = cs
    /\ cdelivered' = bytes
    /\ chead' = head

\* unimplemented!(), unreachable!(), a failed unwrap or assertion
ClientPanicked(cs, bytes, head) ==
    /\ cst' = "Panic"
    /\ cprogress' = NoProgress
    /\ cexp' = NoExpectation
    /\ crequest' = "None"
    /\ cinp' = cinp
    /\ ccalls' = cs
    /\ cdelivered' = bytes
    /\ chead' = head

\* Parser::finish
finish(req, buf, cs, bytes) ==
    IF req = "Done"
    THEN ClientGoto("Flushing", NoProgress, "None", buf, cs, bytes, chead)
    ELSE ClientDone(buf, cs, bytes, chead)

\* maybe_new_request with the Task a callback of Client returned
maybe_new_request(cs) ==
    \/ ClientDone(cinp, cs, cdelivered, chead)
    \/ ClientGoto("Idle", NoProgress, "None", cinp, cs, cdelivered, chead)
    \/ ClientPanicked(cs \o <<"prepare_request", "None">>, cdelivered,
                      chead)
    \/ \E r \in ReqOps("RequestStart") :
         ClientGoto("ReadHeaders", NoProgress, r, cinp,
                    cs \o <<"prepare_request">>, cdelivered, chead)

ClientInit ==
    /\ cscript \in Responses
    /\ cwire = cscript.wire
    /\ cinp = <<>>
    /\ cst = "Connecting"
    /\ cprogress = NoProgress
    /\ cexp = Flush
    /\ crequest = "None"
    /\ chead = NoHead
    /\ cmode = NoMode
    /\ ccalls = <<>>
    /\ cdelivered = <<>>
    /\ ctimers = 0
    /\ NoConnection
    /\ NoBuilder
    /\ NoFunction

ClientRunning == cst \notin {"Closed", "Panic"} /\ Len(ccalls) < MaxCalls

\* a read moves the next bytes of the stream into the input buffer
ClientDeliver ==
    /\ ClientRunning
    /\ cexp.k \in {"Bytes", "Delimiter"} /\ ~ClientExpectationMet
    /\ cwire # <<>>
    /\ ~(cexp.k = "Delimiter" /\ Len(cinp) > cexp.max)
    /\ \E k \in 1..Len(cwire) :
         /\ cinp' = cinp \o SubSeq(cwire, 1, k)
         /\ cwire' = SubSeq(cwire, k + 1, Len(cwire))
    /\ UNCHANGED <<pvars, mvars, fvars, cscript, cst, cprogress, cexp,
                   crequest, chead, cmode, ccalls, cdelivered, ctimers>>

\* bytes_flushed: Connecting or Flushing
ClientBytesFlushed ==
    /\ ClientRunning
    /\ cexp.k = "Flush"
    /\ maybe_new_request(ccalls \o <<"connection_idle">>)
    /\ UNCHANGED <<pvars, mvars, fvars, cscript, cwire, cmode, ctimers>>

\* bytes_read in ReadHeaders: parse_headers
ClientBytesReadHeaders ==
    /\ ClientRunning
    /\ cst = "ReadHeaders" /\ ClientExpectationMet
    /\ LET end == ClientEnd
           raw == ParseResponse(Slice(cinp, 0, end + 4))
           lines == [i \in DOMAIN raw.headers |-> LineOf(raw.headers[i])]
           sh == client_scan_headers(cscript.for_head, raw.code, lines)
           head == [code |-> raw.code,
                    version |-> IF raw.version = 1 THEN "Http11"
                                ELSE "Http10",
                    body_kind |-> sh.body,
                    close |-> sh.close \/ raw.version = 0,
                    headers |-> raw.headers]
       IN  IF crequest = "RequestStart"
           THEN ClientPanicked(ccalls, cdelivered, chead) /\ cmode' = cmode
           ELSE IF raw.status = "Error"
           THEN ClientDone(cinp, ccalls, cdelivered, chead) /\ cmode' = cmode
           ELSE IF raw.status = "Partial" \/ raw.len # end + 4
           THEN ClientPanicked(ccalls, cdelivered, chead) /\ cmode' = cmode
           ELSE IF ~sh.ok
           THEN ClientDone(cinp, ccalls, cdelivered, chead) /\ cmode' = cmode
           ELSE \/ /\ ClientDone(cinp,
                                 ccalls \o <<"headers_received", "None">>,
                                 cdelivered, head)
                   /\ cmode' = cmode
                \/ \E m \in RecvModes, r \in ReqOps(crequest) :
                     /\ ClientGoto("Response", client_start_body(m, sh.body),
                                   r, Consume(cinp, end + 4),
                                   ccalls \o <<"headers_received">>,
                                   cdelivered, head)
                     /\ cmode' = m
    /\ UNCHANGED <<pvars, mvars, fvars, cscript, cwire, ctimers>>

ClientBytesReadBufferFixed ==
    /\ ClientRunning
    /\ cst = "Response" /\ cprogress.k = "BufferFixed"
    /\ ClientExpectationMet
    /\ LET x == cprogress.left
       IN  \E r \in ReqOps(crequest) :
             finish(r, Consume(cinp, x), ccalls \o <<"response_received">>,
                    cdelivered \o Slice(cinp, 0, x))
    /\ UNCHANGED <<pvars, mvars, fvars, cscript, cwire, cmode, ctimers>>

\* BufferEOF(_) => unreachable!()
ClientBytesReadBufferEOF ==
    /\ ClientRunning
    /\ cst = "Response" /\ cprogress.k = "BufferEOF"
    /\ ClientExpectationMet
    /\ ClientPanicked(ccalls, cdelivered, chead)
    /\ UNCHANGED <<pvars, mvars, fvars, cscript, cwire, cmode, ctimers>>

\* variant that compares the chunk alone with the limit
client_chunk_too_large_alone(off, chunk_len, limit) == chunk_len > limit

\* off as u64 + chunk_len > limit as u64
client_chunk_too_large(off, chunk_len, limit) == off + chunk_len > limit

ClientBytesReadBufferChunkedSize ==
    /\ ClientRunning
    /\ cst = "Response" /\ cprogress.k = "BufferChunked"
    /\ cprogress.left = 0 /\ ClientExpectationMet
    /\ LET end == ClientEnd
           off == cprogress.off
           limit == cprogress.lim
           lenstart == consumed_(off)
           stop == lenstart + end + 2
           size == parse_chunk_size(Slice(cinp, lenstart, stop))
           removed == RemoveRange(cinp, off, stop)
       IN  IF size[1] = "Partial"
           THEN ClientPanicked(ccalls, cdelivered, chead)
           ELSE IF size[1] = "Error"
           THEN ClientDone(Consume(cinp, end + 2),
                           ccalls \o <<"bad_response">>, cdelivered, chead)
           ELSE IF size[2] = 0
           THEN \E r \in ReqOps(crequest) :
                  finish(r, Consume(removed, off),
                         ccalls \o <<"response_received">>,
                         cdelivered \o Slice(removed, 0, off))
           ELSE IF client_chunk_too_large(off, size[2], limit)
           THEN ClientDone(Consume(cinp, end + 2),
                           ccalls \o <<"bad_response">>, cdelivered, chead)
           ELSE ClientGoto("Response",
                           Progress("BufferChunked", limit, off, size[2]),
                           crequest, removed, ccalls, cdelivered, chead)
    /\ UNCHANGED <<pvars, mvars, fvars, cscript, cwire, cmode, ctimers>>

ClientBytesReadBufferChunkedData ==
    /\ ClientRunning
    /\ cst = "Response" /\ cprogress.k = "BufferChunked"
    /\ cprogress.left > 0 /\ ClientExpectationMet
    /\ ClientGoto("Response",
                  Progress("BufferChunked", cprogress.lim,
                           cprogress.off + cprogress.left, 0),
                  crequest, cinp, ccalls, cdelivered, chead)
    /\ UNCHANGED <<pvars, mvars, fvars, cscript, cwire, cmode, ctimers>>

ClientBytesReadProgressiveFixed ==
    /\ ClientRunning
    /\ cst = "Response" /\ cprogress.k = "ProgressiveFixed"
    /\ ClientExpectationMet
    /\ LET hint == cprogress.lim
           real_bytes == Min(Len(cinp), cprogress.left)
           left == cprogress.left - real_bytes
           buf == Consume(cinp, real_bytes)
           bytes == cdelivered \o Slice(cinp, 0, real_bytes)
       IN  IF left = 0
           THEN \/ \E r \in ReqOps(crequest) :
                     finish(r, buf, ccalls \o <<"response_chunk", "None">>,
                            bytes)
                \/ \E r \in ReqOps(crequest) :
                     finish(r, buf,
                            ccalls \o <<"response_chunk", "response_end">>,
                            bytes)
           ELSE \/ ClientPanicked(ccalls \o <<"response_chunk", "None">>,
                                  bytes, chead)
                \/ \E r \in ReqOps(crequest) :
                     ClientGoto("Response",
                                Progress("ProgressiveFixed", hint, 0, left),
                                r, buf, ccalls \o <<"response_chunk">>,
                                bytes, chead)
    /\ UNCHANGED <<pvars, mvars, fvars, cscript, cwire, cmode, ctimers>>

\* ProgressiveEOF: the whole buffer is given to response_chunk and kept
ClientBytesReadProgressiveEOF ==
    /\ ClientRunning
    /\ cst = "Response" /\ cprogress.k = "ProgressiveEOF"
    /\ ClientExpectationMet
    /\ \/ ClientPanicked(ccalls \o <<"response_chunk", "None">>,
                         cdelivered \o cinp, chead)
       \/ \E r \in ReqOps(crequest) :
            ClientGoto("Response", cprogress, r, cinp,
                       ccalls \o <<"response_chunk">>, cdelivered \o cinp,
                       chead)
    /\ UNCHANGED <<pvars, mvars, fvars, cscript, cwire, cmode, ctimers>>

ClientBytesReadProgressiveChunkedSize ==
    /\ ClientRunning
    /\ cst = "Response" /\ cprogress.k = "ProgressiveChunked"
    /\ cprogress.left = 0 /\ ClientExpectationMet
    /\ LET end == ClientEnd
           off == cprogress.off
           hint == cprogress.lim
           size == parse_chunk_size(Slice(cinp, off, off + end + 2))
           removed == RemoveRange(cinp, off, end + 2)
       IN  IF size[1] = "Partial"
           THEN ClientPanicked(ccalls, cdelivered, chead)
           ELSE IF size[1] = "Error"
           THEN ClientDone(Consume(cinp, end + 2),
                           ccalls \o <<"bad_response">>, cdelivered, chead)
           ELSE IF off > end + 2
           THEN ClientPanicked(ccalls, cdelivered, chead)
           ELSE IF size[2] = 0
           THEN \/ \E r \in ReqOps(crequest) :
                     finish(r, Consume(removed, off),
                            ccalls \o <<"response_chunk", "None">>,
                            cdelivered \o Slice(removed, 0, off))
                \/ \E r \in ReqOps(crequest) :
                     finish(r, Consume(removed, off),
                            ccalls \o <<"response_chunk", "response_end">>,
                            cdelivered \o Slice(removed, 0, off))
           ELSE ClientGoto("Response",
                           Progress("ProgressiveChunked", hint, off, size[2]),
                           crequest, removed, ccalls, cdelivered, chead)
    /\ UNCHANGED <<pvars, mvars, fvars, cscript, cwire, cmode, ctimers>>

ClientBytesReadProgressiveChunkedData ==
    /\ ClientRunning
    /\ cst = "Response" /\ cprogress.k = "ProgressiveChunked"
    /\ cprogress.left > 0 /\ ClientExpectationMet
    /\ LET hint == cprogress.lim
           off == cprogress.off
           ln == Min((off + cprogress.left) % U64, Len(cinp))
           left == cprogress.left - (ln - off)
       IN  IF ln < hint
           THEN ClientGoto("Response",
                           Progress("ProgressiveChunked", hint, ln, left),
                           crequest, cinp, ccalls, cdelivered, chead)
           ELSE \/ ClientPanicked(ccalls \o <<"response_chunk", "None">>,
                                  cdelivered \o Slice(cinp, 0, ln), chead)
                \/ \E r \in ReqOps(crequest) :
                     ClientGoto("Response",
                                Progress("ProgressiveChunked", hint, 0, left),
                                r, Consume(cinp, ln),
                                ccalls \o <<"response_chunk">>,
                                cdelivered \o Slice(cinp, 0, ln), chead)
    /\ UNCHANGED <<pvars, mvars, fvars, cscript, cwire, cmode, ctimers>>

\* timeout: Client::timeout when idle, unimplemented!() otherwise
ClientTimeout ==
    /\ ClientRunning
    /\ ctimers < MaxTimers
    /\ ctimers' = ctimers + 1
    /\ IF cst = "Idle"
       THEN maybe_new_request(ccalls \o <<"timeout">>)
       ELSE ClientPanicked(ccalls, cdelivered, chead)
    /\ UNCHANGED <<pvars, mvars, fvars, cscript, cwire, cmode>>

\* wakeup: skipped while connecting or flushing, Client::wakeup when idle,
\* unimplemented!() otherwise
ClientWakeup ==
    /\ ClientRunning
    /\ ctimers < MaxTimers
    /\ ctimers' = ctimers + 1
    /\ IF cst \in {"Connecting", "Flushing"}
       THEN ClientGoto(cst, cprogress, crequest, cinp, ccalls, cdelivered,
                       chead)
       ELSE IF cst = "Idle"
       THEN maybe_new_request(ccalls \o <<"wakeup">>)
       ELSE ClientPanicked(ccalls, cdelivered, chead)
    /\ UNCHANGED <<pvars, mvars, fvars, cscript, cwire, cmode>>

ClientBytesRead ==
    \/ ClientBytesReadHeaders
    \/ ClientBytesReadBufferFixed
    \/ ClientBytesReadBufferEOF
    \/ ClientBytesReadBufferChunkedSize
    \/ ClientBytesReadBufferChunkedData
    \/ ClientBytesReadProgressiveFixed
    \/ ClientBytesReadProgressiveEOF
    \/ ClientBytesReadProgressiveChunkedSize
    \/ ClientBytesReadProgressiveChunkedData

ClientNext ==
    \/ ClientDeliver
    \/ ClientBytesFlushed
    \/ ClientBytesRead
    \/ ClientTimeout
    \/ ClientWakeup

ClientSpec == ClientInit /\ [][ClientNext]_vars

(***************************************************************************)
(* The client parser: properties                                           *)
(***************************************************************************)
ClientCalled(name) == \E i \in DOMAIN ccalls : ccalls[i] = name

\* the first exchange of the connection, with handlers that return Some, a
\* limit that the body does not exceed and no timeout or wakeup
Undisturbed ==
    /\ ctimers = 0
    /\ ~ClientCalled("None")
    /\ Count(ccalls, "prepare_request") = 1
    /\ cmode.k = "Buffered" => cmode.n >= Len(cscript.body)

\* the response is over for the parser
ExchangeOver == ClientCalled("headers_received") /\ cst \in {"Flushing", "Closed"}

\* the whole response is in the buffer and the parser waits for more
Starved ==
    /\ cst \in {"ReadHeaders", "Response"}
    /\ cwire = <<>>
    /\ ~ClientExpectationMet

\* the head the handler was given is the head the builder was given
HeadRecovered ==
    /\ chead.code = cscript.code
    /\ \A i \in DOMAIN cscript.headers :
         \E j \in DOMAIN chead.headers :
           /\ chead.headers[j].name = cscript.headers[i][1]
           /\ chead.headers[j].value = cscript.headers[i][2]
    /\ chead.body_kind.k = cscript.framing
    /\ cscript.framing = "Fixed" => chead.body_kind.n = Len(cscript.body)

\* C23: a response serialized through the builder with status S, headers H
\* and body B, with add_length or with add_chunked and non-empty write_body
\* calls, gives the client a head with S, H and the declared framing,
\* delivers exactly B, ends with response_received or response_end, and
\* raises no bad_response.
C23_RoundTrip ==
    (cscript.built /\ Undisturbed)
    => /\ ClientCalled("headers_received") => HeadRecovered
       /\ ~ClientCalled("bad_response")
       /\ ~Starved
       /\ ~(cst = "Panic" /\ ClientCalled("headers_received"))
       /\ ExchangeOver =>
            /\ cdelivered = cscript.body
            /\ ClientCalled("response_received") \/ ClientCalled("response_end")

\* the bytes_read that is due hands the handler the last bytes of the body
FinalChunk ==
    \/ cprogress.k = "ProgressiveFixed" /\ cprogress.left <= Len(cinp)
    \/ cprogress.k = "ProgressiveChunked" /\ cprogress.left = 0

\* headers_received or response_chunk has just returned None
HandlerReturnedNone ==
    \/ ccalls' = ccalls \o <<"headers_received", "None">>
    \/ ccalls' = ccalls \o <<"response_chunk", "None">>

\* C29: when headers_received, or response_chunk before the final chunk,
\* returns None the connection is closed: the machine terminates, and
\* neither a Requester callback nor connection_idle follows.
C29_NoneClosesConnection ==
    [][ (HandlerReturnedNone /\ ~FinalChunk) => cst' = "Closed" ]_vars

\* C30: after a response whose head has close = true the connection is
\* closed: connection_idle is not invoked again and no request is written.
C30_CloseAfterExchange ==
    [][ (ClientCalled("headers_received") /\ chead.close)
        => /\ Count(ccalls', "connection_idle")
                = Count(ccalls, "connection_idle")
           /\ Count(ccalls', "prepare_request")
                = Count(ccalls, "prepare_request") ]_vars

\* the callbacks invoked since the last headers_received
RECURSIVE SinceHeaders(_)
SinceHeaders(cs) ==
    IF cs = <<>> \/ cs[Len(cs)] = "headers_received" THEN <<>>
    ELSE Append(SinceHeaders(SubSeq(cs, 1, Len(cs) - 1)), cs[Len(cs)])

\* bytes_read is due for a chunk-size line of the response
ClientSizeLineDue ==
    /\ ClientRunning /\ cst = "Response"
    /\ cprogress.k \in {"BufferChunked", "ProgressiveChunked"}
    /\ cprogress.left = 0 /\ ClientExpectationMet

\* what httparse makes of that line
ClientSizeLine ==
    LET start == IF cprogress.k = "BufferChunked"
                 THEN consumed_(cprogress.off) ELSE cprogress.off
    IN  parse_chunk_size(Slice(cinp, start, start + ClientEnd + 2))

\* the line is malformed, or its chunk does not fit into the Buffered limit
BadChunk ==
    /\ ClientSizeLineDue
    /\ \/ ClientSizeLine[1] = "Error"
       \/ /\ cprogress.k = "BufferChunked"
          /\ ClientSizeLine[1] = "Complete" /\ ClientSizeLine[2] > 0
          /\ cprogress.off + ClientSizeLine[2] > cprogress.lim

EofBodyDue ==
    /\ ClientRunning /\ cst = "Response"
    /\ cprogress.k \in {"BufferEOF", "ProgressiveEOF"}
    /\ ClientExpectationMet

\* C32: a response without Content-Length and chunked Transfer-Encoding has
\* body kind Eof; the machine does not fail when its body bytes arrive, and
\* in Progressive mode every received byte is given to response_chunk
\* exactly once.
C32_EofBody ==
    [][ /\ (EofBodyDue /\ ctimers' = ctimers /\ ~HandlerReturnedNone)
           => cst' # "Panic"
        /\ (cscript.framing = "Eof" /\ cmode'.k # "None")
           => /\ chead'.body_kind = BodyEof
              /\ cmode'.k = "Progressive"
                 => IsPrefix(cdelivered', cscript.body) ]_vars

\* a chunked response in which every chunk ends with CRLF and the last
\* chunk is followed by an empty line
WellFormedChunked ==
    ~cscript.built /\ cscript.framing = "Chunked" /\ cscript.body # <<>>

\* C33: in Progressive mode, for every hint and every split of the bytes of
\* a well-formed chunked response across reads, the slices given to
\* response_chunk make up the chunk payloads in order, one response_end
\* follows, and bad_response is not invoked.
C33_ProgressiveChunks ==
    (WellFormedChunked /\ Undisturbed /\ cmode.k = "Progressive")
    => /\ IsPrefix(cdelivered, cscript.body)
       /\ ~ClientCalled("bad_response")
       /\ cst # "Panic"
       /\ ~Starved
       /\ ExchangeOver => /\ cdelivered = cscript.body
                          /\ Count(ccalls, "response_end") = 1

(***************************************************************************)
(* The server parser: further properties                                   *)
(***************************************************************************)
\* C34: on LimitReached in ReadHeaders (no empty line within
\* MAX_HEADERS_SIZE bytes) the 431 page is written, headers_received is not
\* invoked for that request, and the connection goes to the closing state.
C34_HeadersTooLarge ==
    [][ /\ (st = "ReadHeaders" /\ event' = "LimitReached")
           => /\ out' = out \o <<"P431">>
              /\ st' = "DoneResponse"
              /\ calls' = calls
              /\ "headers_received" \notin Range(calls')
        /\ (st = "DoneResponse" /\ event = "LimitReached")
           => calls' = calls ]_vars

\* the header block of the first request was too large
C34_Witness ==
    /\ st = "DoneResponse" /\ event = "LimitReached"
    /\ msg = 1 /\ calls = <<>>
    /\ out = <<"P431">>
    /\ Len(inp) > MAX_HEADERS_SIZE

(***************************************************************************)
(* The client parser: further properties                                   *)
(***************************************************************************)
\* bytes_flushed is the event of this step
ClientFlushedStep ==
    /\ ClientRunning /\ cst \in {"Connecting", "Flushing"}
    /\ cexp.k = "Flush" /\ ctimers' = ctimers

\* C35: bytes_flushed in Connecting or Flushing invokes connection_idle once
\* and follows the Task: Request invokes prepare_request once and enters
\* ReadHeaders expecting CRLF CRLF within MAX_HEADERS_SIZE, Sleep enters Idle
\* with the expectation Sleep, Close terminates; connection_idle is not
\* invoked in ReadHeaders or Response.
C35_ConnectionIdle ==
    [][ /\ ClientFlushedStep
           => /\ SubSeq(ccalls', 1, Len(ccalls) + 1)
                   = ccalls \o <<"connection_idle">>
              /\ Count(ccalls', "connection_idle")
                   = Count(ccalls, "connection_idle") + 1
              /\ cst' \in {"ReadHeaders", "Idle", "Closed"}
              /\ cst' = "ReadHeaders"
                 => /\ ccalls' = ccalls \o <<"connection_idle",
                                             "prepare_request">>
                    /\ cexp' = Delimiter(0, 4, CLIENT_MAX_HEADERS_SIZE)
              /\ cst' = "Idle"
                 => /\ ccalls' = ccalls \o <<"connection_idle">>
                    /\ cexp' = Sleep
              /\ cst' = "Closed"
                 => ccalls' = ccalls \o <<"connection_idle">>
        /\ Count(ccalls', "connection_idle")
             > Count(ccalls, "connection_idle")
           => cst \in {"Connecting", "Flushing"} ]_vars

\* C36: when the response headers are received and the request is not Done
\* (not fully written), the connection is closed: the exchange does not go
\* on to read a body and the connection is not used again.
C36_EarlyResponseCloses ==
    [][ (cst = "ReadHeaders" /\ crequest # "Done"
         /\ ccalls' = ccalls \o <<"headers_received">>
         /\ crequest' # "Done")
        => cst' = "Closed" ]_vars

(***************************************************************************)
(* The server parser: the deadline of every Intent.  given is the state    *)
(* of the machine as far as deadlines go (the variant of ParserImpl, the   *)
(* clock, the byte timeout of the context and the deadline the handler     *)
(* returned last), computed is the deadline of the Intent returned last.   *)
(***************************************************************************)
MaxNow == 3
MaxDeadline == 5
MaxByteTimeout == 2

NoHandlerDeadline == [some |-> FALSE, t |-> 0]
HandlerDeadline(d) == [some |-> TRUE, t |-> d]

\* variant that forgets the deadline of the handler
intent_deadline_bytes(dline, clock, byte_timeout) == clock + byte_timeout

\* the last lines of ParserImpl::intent
intent_deadline(dline, clock, byte_timeout) ==
    LET byte_dline == clock + byte_timeout
    IN  IF dline.some THEN Min(byte_dline, dline.t) ELSE byte_dline

\* an Intent of the state with the deadline of ParserImpl::intent
TimedIntent(state, dline) ==
    /\ given' = [given EXCEPT !.state = state, !.handler = dline]
    /\ computed' = [f |-> "intent", at |-> given.clock,
                    deadline |-> intent_deadline(dline, given.clock,
                                                 given.byte_timeout)]

\* Parser::flush, Parser::error, Parser::raw_error, start_headers, create:
\* .deadline(scope.now() + scope.byte_timeout())
TimedByteIntent(state) ==
    /\ given' = [given EXCEPT !.state = state,
                              !.handler = NoHandlerDeadline]
    /\ computed' = [f |-> "intent", at |-> given.clock,
                    deadline |-> given.clock + given.byte_timeout]

\* Processing: .sleep().deadline(deadline)
TimedSleep(dline) ==
    /\ given' = [given EXCEPT !.state = "Processing", !.handler = dline]
    /\ computed' = [f |-> "intent", at |-> given.clock,
                    deadline |-> dline.t]

\* Intent::done()
TimedDone ==
    /\ given' = [given EXCEPT !.state = "Closed",
                              !.handler = NoHandlerDeadline]
    /\ computed' = [f |-> "done", at |-> given.clock, deadline |-> 0]

\* a failed assertion
TimedPanic ==
    /\ given' = [given EXCEPT !.state = "Panic",
                              !.handler = NoHandlerDeadline]
    /\ computed' = [f |-> "panic", at |-> given.clock, deadline |-> 0]

\* Parser::complete: the handler is there, or it is gone
TimedComplete(some, dline) ==
    IF some THEN TimedSleep(dline)
    ELSE \/ TimedPanic
         \/ TimedByteIntent("DoneResponse")
         \/ TimedIntent("Idle", NoHandlerDeadline)

TimedInit ==
    /\ given \in { [f |-> "deadline", state |-> "Idle", clock |-> 0,
                    byte_timeout |-> b, handler |-> NoHandlerDeadline] :
                   b \in 1..MaxByteTimeout }
    /\ computed = [f |-> "intent", at |-> 0, deadline |-> given.byte_timeout]
    /\ NoConnection
    /\ NoBuilder
    /\ NoClient

TimedRunning == given.state \notin {"Closed", "Panic"}

\* time passes between two events
Tick ==
    /\ TimedRunning
    /\ given.clock < MaxNow
    /\ given' = [given EXCEPT !.clock = given.clock + 1]
    /\ UNCHANGED <<pvars, mvars, cvars, computed>>

TimedBytesRead ==
    /\ TimedRunning
    /\ CASE given.state = "Idle" -> TimedByteIntent("ReadHeaders")
         [] given.state = "ReadHeaders" ->
              \/ \E d \in 0..MaxDeadline :
                   TimedIntent("ReadingBody", HandlerDeadline(d))
              \/ TimedIntent("ReadHeaders", NoHandlerDeadline)
              \/ TimedIntent("Idle", NoHandlerDeadline)
              \/ TimedByteIntent("DoneResponse")
              \/ TimedDone
         [] given.state = "ReadingBody" ->
              \/ TimedIntent("ReadingBody", given.handler)
              \/ \E some \in BOOLEAN : TimedComplete(some, given.handler)
         [] given.state = "DoneResponse" ->
              TimedIntent("DoneResponse", NoHandlerDeadline)
         [] OTHER -> TimedSleep(given.handler)
    /\ UNCHANGED <<pvars, mvars, cvars>>

TimedBytesFlushed ==
    /\ given.state = "DoneResponse"
    /\ TimedDone
    /\ UNCHANGED <<pvars, mvars, cvars>>

TimedException ==
    /\ given.state \in {"Idle", "ReadHeaders", "ReadingBody", "DoneResponse"}
    /\ \/ /\ given.state \in {"ReadHeaders", "ReadingBody"}
          /\ TimedByteIntent("DoneResponse")
       \/ TimedDone
    /\ UNCHANGED <<pvars, mvars, cvars>>

TimedTimeout ==
    /\ TimedRunning
    /\ computed.deadline <= given.clock
    /\ CASE given.state \in {"Idle", "DoneResponse"} -> TimedDone
         [] given.state = "ReadHeaders" -> TimedByteIntent("DoneResponse")
         [] given.state = "ReadingBody" ->
              \/ \E d \in 0..MaxDeadline :
                   TimedIntent("ReadingBody", HandlerDeadline(d))
              \/ TimedByteIntent("DoneResponse")
         [] OTHER ->
              \/ \E d \in 0..MaxDeadline :
                   TimedComplete(TRUE, HandlerDeadline(d))
              \/ TimedByteIntent("DoneResponse")
    /\ UNCHANGED <<pvars, mvars, cvars>>

TimedWakeup ==
    /\ TimedRunning
    /\ CASE given.state = "Processing" ->
              \E some \in BOOLEAN : TimedComplete(some, given.handler)
         [] OTHER -> TimedIntent(given.state, given.handler)
    /\ UNCHANGED <<pvars, mvars, cvars>>

TimedNext ==
    \/ Tick
    \/ TimedBytesRead
    \/ TimedBytesFlushed
    \/ TimedException
    \/ TimedTimeout
    \/ TimedWakeup

TimedSpec == TimedInit /\ [][TimedNext]_vars

WithHandlerDeadline ==
    given.f = "deadline" /\ given.state \in {"ReadingBody", "Processing"}

\* C37 as stated: in ReadingBody and in Processing the deadline of the
\* Intent is min(now + byte_timeout, handler deadline).
C37_MinDeadline ==
    WithHandlerDeadline
    => computed.deadline
         = Min(computed.at + given.byte_timeout, given.handler.t)

\* C37 amended: in ReadingBody the deadline of the Intent is
\* min(now + byte_timeout, handler deadline), in Processing it is the handler
\* deadline; in both it is not later than the deadline the handler returned
\* last, and every Intent that does not end the connection has a deadline.
C37_Deadline ==
    given.f = "deadline"
    => /\ given.state = "ReadingBody"
          => /\ given.handler.some
             /\ computed.deadline
                  = Min(computed.at + given.byte_timeout, given.handler.t)
       /\ given.state = "Processing"
          => given.handler.some /\ computed.deadline = given.handler.t
       /\ WithHandlerDeadline => computed.deadline <= given.handler.t
       /\ TimedRunning
          => computed.f = "intent" /\ computed.deadline \in Nat

C37_Witness ==
    /\ given.f = "deadline" /\ given.state = "ReadingBody"
    /\ given.handler.t < computed.at + given.byte_timeout
    /\ computed.deadline = given.handler.t
    /\ computed.at > 0

(***************************************************************************)
(* The server parser: the closing state, with fair delivery of the events  *)
(* that end it                                                             *)
(***************************************************************************)
\* bytes_read in DoneResponse: "Spurious event?", me.intent(scope)
BytesReadDoneResponse ==
    /\ st = "DoneResponse"
    /\ event' = "bytes_read"
    /\ Step(st, scanned, machine, progress, response, connection_close,
            intent(st, scanned, progress), inp, out, calls, delivered,
            consumed)
    /\ UNCHANGED <<mvars, fvars, cvars, script, wire, mode, msg, timers>>

FairNext == Next \/ BytesReadDoneResponse

\* the buffer is flushed or the deadline passes: one of the two is delivered
ClosingEvent == st = "DoneResponse" /\ (BytesFlushed \/ Timeout)

\* a connection that carries one request: one of each framing, or one that
\* ends in an error page
FairInit ==
    /\ Init
    /\ script \in { <<r>> : r \in KeepAliveRequests \cup MalformedRequests }

FairSpec == FairInit /\ [][FairNext]_vars /\ WF_vars(ClosingEvent)

\* C38: in DoneResponse no handler is called and nothing is written;
\* bytes_read and wakeup leave the machine there, still expecting the flush;
\* bytes_flushed and timeout close the connection; with fair delivery of
\* these two a connection in DoneResponse is eventually closed.
C38_ClosingTerminates ==
    /\ [][ st = "DoneResponse"
           => /\ calls' = calls /\ out' = out
              /\ event' \in {"bytes_read", "wakeup"}
                 => st' = "DoneResponse" /\ exp' = Flush
              /\ event' \in {"bytes_flushed", "timeout"}
                 => st' = "Closed" ]_vars
    /\ (st = "DoneResponse") ~> (st = "Closed")

C38_Witness ==
    /\ st = "Closed" /\ event = "bytes_flushed"
    /\ out # <<>> /\ calls # <<>>

(***************************************************************************)
(* The server parser: wakeup and the assertions                            *)
(***************************************************************************)
\* C39: a wakeup invokes no handler in Idle, ReadHeaders and DoneResponse
\* and leaves the state variant, the body progress, connection_close and the
\* expectation as they were; after a wakeup in ReadHeaders the machine still
\* waits for CRLF CRLF within MAX_HEADERS_SIZE, so bytes_read in ReadHeaders
\* is only delivered for a complete header block.
C39_WakeupFrame ==
    [][ /\ event' = "wakeup"
           => /\ st \in {"Idle", "ReadHeaders", "DoneResponse"}
                 => calls' = calls
              /\ st' = st /\ progress' = progress
              /\ connection_close' = connection_close
              /\ exp' = exp
              /\ st = "ReadHeaders"
                 => exp' = Delimiter(0, 4, MAX_HEADERS_SIZE)
        /\ (st = "ReadHeaders" /\ event' = "bytes_read")
           => /\ exp.k = "Delimiter"
              /\ FindDelim(inp, 0, 4) # -1 ]_vars

\* the events whose handler ends in Parser::complete and nothing else that
\* could fail: a wakeup in Processing, the body of a buffered request of
\* fixed length
CompleteDue ==
    \/ st = "Processing" /\ event' = "wakeup"
    \/ st = "ReadingBody" /\ progress.k = "BufferFixed"
       /\ event' = "bytes_read"

\* C40: no event delivered under the adapter contract fails the assertion
\* of Parser::complete: when the handler returns None the machine goes to
\* Idle or to the closing state, whatever the state of the response.
C40_NoFailedAssertion ==
    [][ CompleteDue => st' \in {"Processing", "Idle", "DoneResponse"} ]_vars
====
